---- MODULE Spec2Model ----
(***************************************************************************)
(* A model of FinancialStatementParser                                     *)
(* (src/financial_statement_parser/parser.py).                             *)
(*                                                                         *)
(* Text.  A Python str is a sequence of characters; a character is a       *)
(* one-element token written here as a short ASCII string, because the     *)
(* parser's own alphabet is CJK:                                           *)
(*   "nian" = U+5E74 (year), "yue" = U+6708 (month), "ri" = U+65E5 (day),  *)
(*   "zhi" = U+81F3 (to); the account names are romanised the same way     *)
(*   (see the name table below).                                           *)
(*                                                                         *)
(* Lines.  A raw line is a sequence of lexemes [k, s]: s is the lexeme's   *)
(* text and k its kind.  The boundaries of the lexemes are the answer of   *)
(* the external segmentation service (jieba) for that line; every regular  *)
(* expression of the parser that a claim depends on is evaluated on the    *)
(* characters.                                                             *)
(***************************************************************************)
EXTENDS Integers, Sequences, FiniteSets, TLC

VARIABLES
    content,  \* self.content: the lines of the statement (indexes into Lines)
    parser,   \* the FinancialStatementParser object (its fields)
    cur,      \* the number of lines parse() has handled
    branch,   \* what parse() did with that line
    fin,      \* pure-function checks: the argument
    fout,     \* pure-function checks: the result
    fpc       \* "parse", or for the pure-function checks "in" | "out"

vars == <<content, parser, cur, branch, fin, fout, fpc>>

-----------------------------------------------------------------------------
(* Bounds of the model. *)

MaxNumLen == 5      \* length of the strings given to the numeric extractor
MaxMergeLen == 3    \* length of the rows given to merge_subjects
MaxBody == 2        \* lines a content holds after its prefix

-----------------------------------------------------------------------------
(* Generic helpers on sequences (Python list / str primitives). *)

RECURSIVE Flatten(_)
\* "".join(parts)
Flatten(ss) == IF ss = <<>> THEN <<>> ELSE Head(ss) \o Flatten(Tail(ss))

\* s[i:] with Python's 0-based i (i >= 0)
From(s, i) == IF i >= Len(s) THEN <<>> ELSE SubSeq(s, i + 1, Len(s))

\* s[:i] with Python's 0-based i (i >= 0)
Upto(s, i) == IF i >= Len(s) THEN s ELSE SubSeq(s, 1, i)

\* x in s (list membership / one character in a str)
In(x, s) == \E i \in 1..Len(s) : s[i] = x

\* s.replace(c, "") for a one-character c
RECURSIVE Remove(_, _)
Remove(s, c) ==
    IF s = <<>> THEN <<>>
    ELSE IF Head(s) = c THEN Remove(Tail(s), c)
    ELSE <<Head(s)>> \o Remove(Tail(s), c)

Digits == {"0", "1", "2", "3", "4", "5", "6", "7", "8", "9"}

IsDigit(c) == c \in Digits

DigitVal(c) ==
    CASE c = "0" -> 0 [] c = "1" -> 1 [] c = "2" -> 2 [] c = "3" -> 3
      [] c = "4" -> 4 [] c = "5" -> 5 [] c = "6" -> 6 [] c = "7" -> 7
      [] c = "8" -> 8 [] c = "9" -> 9

\* int(s) for a str of decimal digits
RECURSIVE PyInt(_)
PyInt(s) ==
    IF s = <<>> THEN 0
    ELSE 10 * PyInt(SubSeq(s, 1, Len(s) - 1)) + DigitVal(s[Len(s)])

\* str(n) for n >= 0
RECURSIVE PyStr(_)
PyStr(n) ==
    LET d == <<"0", "1", "2", "3", "4", "5", "6", "7", "8", "9">>[(n % 10) + 1]
    IN IF n < 10 THEN <<d>> ELSE PyStr(n \div 10) \o <<d>>

\* the character at 1-based position i, or "" past the end
At(s, i) == IF i >= 1 /\ i <= Len(s) THEN s[i] ELSE ""

\* how many of the characters s[i], s[i+1], ... (at most max) are digits
RECURSIVE DigitRun(_, _, _)
DigitRun(s, i, max) ==
    IF max = 0 \/ ~IsDigit(At(s, i)) THEN 0 ELSE 1 + DigitRun(s, i + 1, max - 1)

\* TRUE, once TLC has evaluated x (it evaluates arguments and LET definitions
\* only when they are first used)
Evaluated(x) == x = x

\* all strings over alphabet A of length at most n
StringsUpTo(A, n) == UNION {[1..k -> A] : k \in 0..n}

-----------------------------------------------------------------------------
(* Numeric / percentage extraction. *)

RECURSIVE NumGroups(_, _)
\* (?:,\d{3})* from 1-based position j: the position after the last group
NumGroups(s, j) ==
    IF At(s, j) = "," /\ DigitRun(s, j + 1, 3) = 3 THEN NumGroups(s, j + 4) ELSE j

\* NUM_PATTERN = \d{1,3}(?:,\d{3})*\){0,1}|-  tried at 1-based position i:
\* the position after the match, or 0 when there is none
NumMatchEnd(s, i) ==
    LET n == DigitRun(s, i, 3)
        g == NumGroups(s, i + n)
    IN IF n >= 1 THEN (IF At(s, g) = ")" THEN g + 1 ELSE g)
       ELSE IF At(s, i) = "-" THEN i + 1
       ELSE 0

RECURSIVE NumFindAllFrom(_, _)
NumFindAllFrom(s, i) ==
    IF i > Len(s) THEN <<>>
    ELSE LET e == NumMatchEnd(s, i)
         IN IF e = 0 THEN NumFindAllFrom(s, i + 1)
            ELSE <<SubSeq(s, i, e - 1)>> \o NumFindAllFrom(s, e)

\* re.findall(NUM_PATTERN, sentence)
NumFindAll(s) == NumFindAllFrom(s, 1)

\* \d+ from 1-based position i: the position after it, or 0 when there is no digit
PlusDigitsEnd(s, i) ==
    LET n == DigitRun(s, i, Len(s)) IN IF n = 0 THEN 0 ELSE i + n

\* \d+\.\d+% from position i: the position after it, or 0
PercentHalfEnd(s, i) ==
    LET a == PlusDigitsEnd(s, i)
        b == IF a # 0 /\ At(s, a) = "." THEN PlusDigitsEnd(s, a + 1) ELSE 0
    IN IF b # 0 /\ At(s, b) = "%" THEN b + 1 ELSE 0

\* PERCENT_PATTERN = \d+\.\d+%~\d+\.\d+%  tried at position i
PercentMatchEnd(s, i) ==
    LET a == PercentHalfEnd(s, i)
    IN IF a # 0 /\ At(s, a) = "~" THEN PercentHalfEnd(s, a + 1) ELSE 0

RECURSIVE PercentFindAllFrom(_, _)
PercentFindAllFrom(s, i) ==
    IF i > Len(s) THEN <<>>
    ELSE LET e == PercentMatchEnd(s, i)
         IN IF e = 0 THEN PercentFindAllFrom(s, i + 1)
            ELSE <<SubSeq(s, i, e - 1)>> \o PercentFindAllFrom(s, e)

\* re.findall(PERCENT_PATTERN, sentence)
PercentFindAll(s) == PercentFindAllFrom(s, 1)

\* A value of the Value column: a Python int, or a str (a percentage range).
IntVal(n) == [t |-> "int", v |-> n, s |-> <<>>]
StrVal(s) == [t |-> "str", v |-> 0, s |-> s]

\* ConvertNum without the negation of a bracketed number
ConvertNumNoNegate(num) ==
    LET cleaned_num == Remove(num, ",")
    IN IF In(")", cleaned_num) THEN IntVal(PyInt(Remove(cleaned_num, ")")))
       ELSE IF num = <<"-">> THEN IntVal(0)
       ELSE IntVal(PyInt(cleaned_num))

\* the body of the loop of extract_subject_nums: one match to one number
ConvertNum(num) ==
    LET cleaned_num == Remove(num, ",")
    IN IF In(")", cleaned_num) THEN IntVal(-PyInt(Remove(cleaned_num, ")")))
       ELSE IF num = <<"-">> THEN IntVal(0)
       ELSE IntVal(PyInt(cleaned_num))

\* extract_subject_nums, given the sentence remove_token() returned
extract_subject_nums(sentence) ==
    IF In("%", sentence)
    THEN LET m == PercentFindAll(sentence) IN [i \in 1..Len(m) |-> StrVal(m[i])]
    ELSE LET m == NumFindAll(sentence) IN [i \in 1..Len(m) |-> ConvertNum(m[i])]

-----------------------------------------------------------------------------
(* Period normalisation. *)

\* A PeriodKey, or the exception transform_date ends with.
\*   t = "dt":  datetime(v[1], v[2], v[3])      t = "str": the label s
\*   t = "TypeError" | "ValueError": the exception raised
DtVal(y, m, d) == [t |-> "dt", v |-> <<y, m, d>>, s |-> <<>>]
LabelVal(s) == [t |-> "str", v |-> <<>>, s |-> s]
Raised(e) == [t |-> e, v |-> <<>>, s |-> <<>>]

IsPeriod(p) == p.t \in {"dt", "str"}

\* QUATER_MAP.get(k): the code, or <<>> for None
QUATER_MAP(k) ==
    CASE k = <<"1", "yue", "1", "zhi", "3", "yue", "3", "1">> -> <<"Q", "1">>
      [] k = <<"4", "yue", "1", "zhi", "6", "yue", "3", "0">> -> <<"Q", "2">>
      [] k = <<"7", "yue", "1", "zhi", "9", "yue", "3", "0">> -> <<"Q", "3">>
      [] k = <<"1", "0", "yue", "1", "zhi", "1", "2", "yue", "3", "1">> -> <<"Q", "4">>
      [] k = <<"1", "yue", "1", "zhi", "6", "yue", "3", "0">> -> <<"H", "1">>
      [] k = <<"7", "yue", "1", "zhi", "1", "2", "yue", "3", "1">> -> <<"H", "2">>
      [] OTHER -> <<>>

\* re.sub("年|月", "-", s)
RECURSIVE SubYearMonth(_)
SubYearMonth(s) ==
    IF s = <<>> THEN <<>>
    ELSE (IF Head(s) \in {"nian", "yue"} THEN <<"-">> ELSE <<Head(s)>>)
         \o SubYearMonth(Tail(s))

IsLeap(y) == (y % 4 = 0 /\ y % 100 # 0) \/ y % 400 = 0

DaysInMonth(y, m) ==
    IF m = 2 THEN (IF IsLeap(y) THEN 29 ELSE 28)
    ELSE IF m \in {4, 6, 9, 11} THEN 30 ELSE 31

\* %m of strptime, (1[0-2]|0[1-9]|[1-9]), at 1-based position i: its length or 0
StrpMonthLen(s, i) ==
    IF At(s, i) = "1" /\ At(s, i + 1) \in {"0", "1", "2"} THEN 2
    ELSE IF At(s, i) = "0" /\ At(s, i + 1) \in Digits \ {"0"} THEN 2
    ELSE IF At(s, i) \in Digits \ {"0"} THEN 1
    ELSE 0

\* %d of strptime, (3[01]|[12]\d|0[1-9]|[1-9]), at position i: its length or 0
StrpDayLen(s, i) ==
    IF At(s, i) = "3" /\ At(s, i + 1) \in {"0", "1"} THEN 2
    ELSE IF At(s, i) \in {"1", "2"} /\ At(s, i + 1) \in Digits THEN 2
    ELSE IF At(s, i) = "0" /\ At(s, i + 1) \in Digits \ {"0"} THEN 2
    ELSE IF At(s, i) \in Digits \ {"0"} THEN 1
    ELSE 0

\* datetime.strptime(date_str, "%Y-%m-%d")
strptime_Ymd(date_str) ==
    LET ml == StrpMonthLen(date_str, 6)
        dl == StrpDayLen(date_str, 7 + ml)
        y == PyInt(SubSeq(date_str, 1, 4))
        m == PyInt(SubSeq(date_str, 6, 5 + ml))
        d == PyInt(SubSeq(date_str, 7 + ml, 6 + ml + dl))
    IN IF /\ DigitRun(date_str, 1, 4) = 4
          /\ At(date_str, 5) = "-"
          /\ ml > 0
          /\ At(date_str, 6 + ml) = "-"
          /\ dl > 0
          /\ Len(date_str) = 6 + ml + dl
       THEN (IF d <= DaysInMonth(y, m) THEN DtVal(y, m, d) ELSE Raised("ValueError"))
       ELSE Raised("ValueError")

\* EraYear without the era offset
EraYearNoOffset(s) == PyInt(Upto(s, 3))

\* year = int(s[:3]) + 1911
EraYear(s) == PyInt(Upto(s, 3)) + 1911

\* transform_date(s); int(s[:3]) is modelled for digit strings only
transform_date(s) ==
    IF Upto(s, 3) = <<>> \/ \E i \in 1..Len(Upto(s, 3)) : ~IsDigit(s[i])
    THEN Raised("ValueError")
    ELSE LET year == EraYear(s)
         IN IF ~(In("zhi", s) \/ In("~", s))
            THEN strptime_Ymd(PyStr(year) \o From(SubYearMonth(s), 3))
            ELSE LET code == QUATER_MAP(From(s, 4))
                 IN IF code = <<>> THEN Raised("TypeError")
                    ELSE LabelVal(PyStr(year) \o <<"-">> \o code)

-----------------------------------------------------------------------------
(* Column-header merge. *)

\* FlushName without the characters of the first row
FlushNameNoPrefix(subject_s1, subject_s2) == subject_s2

\* subject_s2 = subject_s1 + subject_s2, the name flushed at a space of s2
FlushName(subject_s1, subject_s2) == subject_s1 \o subject_s2

\* One iteration of the loop of merge_subjects, at 1-based index i of s2, on
\* the two buffers and the list built so far.
MergeStep(s1, s2, acc, i) ==
    LET b1 == IF i > Len(s1) THEN acc.subject_s1
              ELSE IF s1[i] # " " THEN Append(acc.subject_s1, s1[i])
              ELSE acc.subject_s1
    IN IF s2[i] # " "
       THEN [acc EXCEPT !.subject_s1 = b1,
                        !.subject_s2 = Append(acc.subject_s2, s2[i])]
       ELSE IF acc.subject_s2 # <<>>
       THEN [subject_s1 |-> <<>>, subject_s2 |-> <<>>,
             merged_subjects |->
                 Append(acc.merged_subjects, FlushName(b1, acc.subject_s2))]
       ELSE [acc EXCEPT !.subject_s1 = b1]

\* The iterations lo..hi of the loop, in order.  They are evaluated by halves,
\* the first half before the second (Evaluated), which keeps TLC's evaluation
\* shallow on rows of a hundred characters.
RECURSIVE MergeLoop(_, _, _, _, _)
MergeLoop(s1, s2, lo, hi, acc) ==
    IF lo > hi THEN acc
    ELSE IF lo = hi THEN MergeStep(s1, s2, acc, lo)
    ELSE LET mid == (lo + hi) \div 2
             left == MergeLoop(s1, s2, lo, mid, acc)
         IN IF Evaluated(left) THEN MergeLoop(s1, s2, mid + 1, hi, left) ELSE left

\* merge_subjects(s1, s2): the loop, then the flush of a remaining second buffer
merge_subjects(s1, s2) ==
    LET acc == MergeLoop(s1, s2, 1, Len(s2),
                         [subject_s1 |-> <<>>, subject_s2 |-> <<>>,
                          merged_subjects |-> <<>>])
    IN IF acc.subject_s2 # <<>>
       THEN Append(acc.merged_subjects, acc.subject_s2)
       ELSE acc.merged_subjects

-----------------------------------------------------------------------------
(* Names.  Romanised characters of the account names:                      *)
(*   qi ta = other, he ji2 = total, hui lv ying xiang shu1 = exchange      *)
(*   effect, qi2 chu yu e = opening balance, qi2 mo yu e = closing         *)
(*   balance, li lv qu jian1 = rate range, cheng1 ben = cost.              *)

Other == <<"qi", "ta">>
Total == <<"he", "ji2">>
ExchangeEffect == <<"hui", "lv", "ying", "xiang", "shu1">>
OpeningBalance == <<"qi2", "chu", "yu", "e">>
ClosingBalance == <<"qi2", "mo", "yu", "e">>
RateRange == <<"li", "lv", "qu", "jian1">>
Cost == <<"cheng1", "ben">>

REFERRED_ACCOUNTS ==
    {Other, Total, ExchangeEffect, OpeningBalance, ClosingBalance, RateRange}

DUPLICATED_CONTENT == {Cost} \cup REFERRED_ACCOUNTS

\* None, where a str is expected: a one-character text no line contains
None == <<"None">>

\* None, where a list of str is expected
NoneList == <<None>>

\* the characters that are not CJK ideographs
Ascii ==
    Digits \cup {" ", ",", ")", "(", "-", "%", "~", ".", "#", "a", "b", "x", "Q", "H"}

IsHan(c) == c \notin Ascii /\ c # "None"

-----------------------------------------------------------------------------
(* The dictionary (financial_statements.txt is data, not part of the       *)
(* sources): two main subjects and their accounts.                         *)
(*   bu dong chan = property, tu di = land, zhang mian jin e = carrying    *)
(*   amount, cun huo = inventories, yuan liao = raw materials.             *)

PPE == <<"bu", "dong", "chan">>
INV == <<"cun", "huo">>
Land == <<"tu", "di">>
BookValue == <<"zhang", "mian", "jin", "e">>
RawMat == <<"yuan", "liao">>

DictionaryText ==
    << <<"#", " ">> \o PPE, Land, BookValue, Other, <<>>,
       <<"#", " ">> \o INV, INV, RawMat, Other >>

\* subject_d[...] = {"Count": 0}
BaseEntry ==
    [Count |-> 0, Period |-> <<>>, Subject |-> <<>>,
     has_Period |-> FALSE, has_Subject |-> FALSE]

\* subject_d[subject] = {"Count": 0, "Period": [], "Subject": main_subject}
FullEntry(main_subject) ==
    [Count |-> 0, Period |-> <<>>, Subject |-> main_subject,
     has_Period |-> TRUE, has_Subject |-> TRUE]

\* d[k] = v on a dict
Put(d, k, v) == [x \in (DOMAIN d) \cup {k} |-> IF x = k THEN v ELSE d[x]]

\* One iteration of the loop of load_subjects_dict on the line text.
\* st = [subject_d, main_subjects, main_subject, err]
LoadStep(st, text) ==
    IF text = <<>> THEN st
    ELSE IF Head(text) = "#"
    THEN [st EXCEPT !.main_subject = From(text, 2),
                    !.main_subjects = Put(st.main_subjects, From(text, 2), <<>>)]
    ELSE LET subject == IF text \in REFERRED_ACCOUNTS
                        THEN st.main_subject \o <<"-">> \o text
                        ELSE text
         IN [st EXCEPT !.subject_d =
                Put(st.subject_d, subject, FullEntry(st.main_subject))]

RECURSIVE LoadLoop(_, _)
LoadLoop(st, subjects) ==
    IF subjects = <<>> THEN st
    ELSE LoadLoop(LoadStep(st, Head(subjects)), Tail(subjects))

\* load_subjects_dict() on the lines of the dictionary: the dict of accounts
\* (subject_d without its "main subjects" entry) and subject_d["main subjects"]
\* (name -> Remark)
load_subjects_dict(subjects) ==
    LoadLoop([subject_d |-> [k \in DUPLICATED_CONTENT |-> BaseEntry],
              main_subjects |-> [k \in {} |-> <<>>],
              main_subject |-> <<>>,
              err |-> ""],     \* the exception raised: no statement raises one
             subjects)

-----------------------------------------------------------------------------
(* The parser object. *)

\* FinancialStatementParser.__init__
NewParser ==
    LET d == load_subjects_dict(DictionaryText)
    IN [ access_import_subjects |-> FALSE,
         data |-> <<>>,
         use_dates |-> <<>>,
         subjects_dict |-> d.subject_d,
         main_subjects |-> d.main_subjects,
         category |-> None,
         last_sentence |-> <<>>,
         fourth_grade_account |-> <<>>,
         _sentence |-> <<>>,
         other_count |-> 0,
         _subject_annotations |-> <<>>,
         _remark |-> <<>>,
         _cur_subject |-> <<>>,
         _tokens |-> <<>>,
         err |-> "",            \* the exception that ended parse(), "" if none
         \* history of the line handled last (read by no operation):
         g_asm |-> <<>>,        \* the calls of _append_data
         g_cls |-> <<>>,        \* the calls of change_token on referred accounts
         g_dates |-> <<>>,      \* the dates_str of the period extraction
         g_extended |-> <<>>,   \* use_dates as each period extraction left it
         g_decision |-> "",     \* "category" | "header" | ""
         g_header |-> <<>>,     \* the parser as the decision of lines 134-139 found it
         g_reset |-> <<>>,      \* the calls of _reset_fourth_grade_account_and_category
         g_tok |-> <<>>,        \* the iterations of the loop of _process_tokens
         \* history of the run: the classifications of one referred account
         \* in a row since the last record of another account
         g_streak |-> [on |-> FALSE, A |-> <<>>, S |-> <<>>, n |-> 0, t |-> <<>>,
                       outs |-> <<>>, emitted |-> 0, at |-> 0] ]

-----------------------------------------------------------------------------
(* Segmented text.  A line, and the parser's _sentence, is a sequence of    *)
(* segments (each a str): its text is their concatenation, and the         *)
(* segments are what the segmentation service returns for that text.       *)
(* Removing characters from the text removes them from their segments; a   *)
(* segment left empty disappears.                                          *)

NonEmpty(s) == s # <<>>

\* the number of characters before segment j
RECURSIVE SegOffset(_, _)
SegOffset(segs, j) ==
    IF j <= 1 THEN 0 ELSE SegOffset(segs, j - 1) + Len(segs[j - 1])

\* the characters of s whose position, counted from off, is not in R
RECURSIVE KeepAt(_, _, _)
KeepAt(s, off, R) ==
    IF s = <<>> THEN <<>>
    ELSE (IF (off + 1) \in R THEN <<>> ELSE <<Head(s)>>)
         \o KeepAt(Tail(s), off + 1, R)

\* the segments without the characters at the text positions R
RemovePositions(segs, R) ==
    SelectSeq([j \in 1..Len(segs) |-> KeepAt(segs[j], SegOffset(segs, j), R)],
              NonEmpty)

\* the positions of the spans <<first, last>> of a list
SpanPositions(spans) ==
    UNION {spans[k][1]..spans[k][2] : k \in 1..Len(spans)}

\* sub in s, for two str
Contains(s, sub) ==
    \E i \in 1..(Len(s) - Len(sub) + 1) : SubSeq(s, i, i + Len(sub) - 1) = sub

\* _clean_sentence: the characters the pattern removes.  Of the pattern
\* " |\r|日|－|\(註\d{0,}\)|^0|\d+年度|、" the alternatives a line of this model
\* can contain are the space, the day marker and the leading zero.
CleanPositions(s) ==
    {i \in 1..Len(s) : s[i] \in {" ", "ri"} \/ (i = 1 /\ s[i] = "0")}

_clean_sentence(sentence) ==
    RemovePositions(sentence, CleanPositions(Flatten(sentence)))

-----------------------------------------------------------------------------
(* PERIOD_PATTERN =                                                        *)
(* [0-9]{3}[年\.][0-9]{1,2}[月\.][0-9]{1,2}                                  *)
(*     (?:[日至~]{0,}[0-9]{1,2}[月\.][0-9]{1,2})?                            *)

YearSepChars == {"nian", "."}
MonthSepChars == {"yue", "."}
RangeChars == {"ri", "zhi", "~"}

\* [0-9]{1,2}[月\.][0-9]{1,2} at position i: the position after it, or 0.
\* The first repetition gives a digit back when the separator does not follow.
MonthDayEnd(s, i) ==
    LET n == DigitRun(s, i, 2)
        ok(m) == /\ m >= 1 /\ m <= n
                 /\ At(s, i + m) \in MonthSepChars
                 /\ DigitRun(s, i + m + 1, 2) >= 1
        m == IF ok(2) THEN 2 ELSE IF ok(1) THEN 1 ELSE 0
    IN IF m = 0 THEN 0 ELSE i + m + 1 + DigitRun(s, i + m + 1, 2)

\* how many of s[i], s[i+1], ... are range characters
RECURSIVE RangeRun(_, _)
RangeRun(s, i) == IF At(s, i) \in RangeChars THEN 1 + RangeRun(s, i + 1) ELSE 0

\* the pattern tried at position i: the position after the match, or 0
PeriodMatchEnd(s, i) ==
    LET a == IF DigitRun(s, i, 3) = 3 /\ At(s, i + 3) \in YearSepChars
             THEN MonthDayEnd(s, i + 4) ELSE 0
        g == IF a = 0 THEN 0 ELSE MonthDayEnd(s, a + RangeRun(s, a))
    IN IF a = 0 THEN 0 ELSE IF g # 0 THEN g ELSE a

\* re.finditer(PERIOD_PATTERN, s): the spans <<first, last>> of the matches
RECURSIVE PeriodSpansFrom(_, _)
PeriodSpansFrom(s, i) ==
    IF i > Len(s) THEN <<>>
    ELSE LET e == PeriodMatchEnd(s, i)
         IN IF e = 0 THEN PeriodSpansFrom(s, i + 1)
            ELSE << <<i, e - 1>> >> \o PeriodSpansFrom(s, e)

PeriodSpans(s) == PeriodSpansFrom(s, 1)

\* _extract_dates_and_record_locs: the matched texts
_extract_dates(s) ==
    LET sp == PeriodSpans(s) IN [k \in 1..Len(sp) |-> SubSeq(s, sp[k][1], sp[k][2])]

-----------------------------------------------------------------------------
(* Ordering of PeriodKeys: sorted(..., reverse=True). *)

\* ord(c) of the characters of a label
Ord(c) ==
    CASE c = "-" -> 45 [] c = "H" -> 72 [] c = "Q" -> 81
      [] OTHER -> 48 + DigitVal(c)

\* a < b for two str
RECURSIVE StrLess(_, _)
StrLess(a, b) ==
    IF b = <<>> THEN FALSE
    ELSE IF a = <<>> THEN TRUE
    ELSE IF Head(a) = Head(b) THEN StrLess(Tail(a), Tail(b))
    ELSE Ord(Head(a)) < Ord(Head(b))

\* a < b for two datetime (as <<y, m, d>>)
DtLess(a, b) ==
    \/ a[1] < b[1]
    \/ a[1] = b[1] /\ a[2] < b[2]
    \/ a[1] = b[1] /\ a[2] = b[2] /\ a[3] < b[3]

\* a < b for two PeriodKeys of the same type
PeriodLess(a, b) == IF a.t = "dt" THEN DtLess(a.v, b.v) ELSE StrLess(a.s, b.s)

\* x inserted in the descending list ps, after the entries equal to it
RECURSIVE InsertDesc(_, _)
InsertDesc(ps, x) ==
    IF ps = <<>> THEN <<x>>
    ELSE IF PeriodLess(Head(ps), x) THEN <<x>> \o ps
    ELSE <<Head(ps)>> \o InsertDesc(Tail(ps), x)

RECURSIVE SortDesc(_)
SortDesc(ps) ==
    IF ps = <<>> THEN <<>>
    ELSE InsertDesc(SortDesc(SubSeq(ps, 1, Len(ps) - 1)), ps[Len(ps)])

\* the exception a list of transformed dates carries, "" when none:
\* the first transform_date that raised, else the TypeError of comparing a
\* datetime with a str
DatesError(ds) ==
    IF \E k \in 1..Len(ds) : ~IsPeriod(ds[k])
    THEN ds[CHOOSE k \in 1..Len(ds) :
                ~IsPeriod(ds[k]) /\ \A j \in 1..(k - 1) : IsPeriod(ds[j])].t
    ELSE IF \E j, k \in 1..Len(ds) : ds[j].t # ds[k].t THEN "TypeError"
    ELSE ""

-----------------------------------------------------------------------------
(* Record assembly and token classification. *)

Raise(p, e) == [p EXCEPT !.err = e]

Range(s) == {s[i] : i \in 1..Len(s)}

Min(a, b) == IF a < b THEN a ELSE b

\* bool(x) for a str or a list that may be None
Truthy(x) == x # <<>> /\ x # None /\ x # NoneList

\* the dates of use_dates that are not in the Period list of token
\* (_find_usable_dates, when the entry has a Period list)
_find_usable_dates(p, token) ==
    LET period == p.subjects_dict[token].Period
        unused(d) == ~In(d, period)
    IN SelectSeq(p.use_dates, unused)

\* whether _find_usable_dates(token) raises KeyError: the comprehension reads
\* subjects_dict[token]["Period"] once for every entry of use_dates
FindUsableDatesFails(p, token) ==
    p.use_dates # <<>> /\ ~p.subjects_dict[token].has_Period

\* remove_duplicated_account
remove_duplicated_account(fourth_grade_account) ==
    IF Truthy(fourth_grade_account) THEN fourth_grade_account[1] ELSE None

\* one row of self.data
Row(p, token, account, date, num) ==
    [Account |-> token, Fourth |-> account, Period |-> date, Value |-> num,
     Category |-> p.category, Annotation |-> p._subject_annotations,
     Subject |-> p._cur_subject]

\* Zip without the last pair
ZipDropLast(a, b) == [i \in 1..(Min(Len(a), Len(b)) - 1) |-> <<a[i], b[i]>>]

\* zip(a, b)
Zip(a, b) == [i \in 1..Min(Len(a), Len(b)) |-> <<a[i], b[i]>>]

\* DatesMatchNums with the assertion removed
DatesMatchNumsUnchecked(use_dates, nums) == TRUE

\* assert len(use_dates) == len(nums), "Not matched dates and nums"
DatesMatchNums(use_dates, nums) == Len(use_dates) = Len(nums)

\* _append_data
_append_data(p, token, nums) ==
    IF ~p.subjects_dict[token].has_Period THEN Raise(p, "KeyError")
    ELSE
    LET use_dates == _find_usable_dates(p, token)
        fga == p.fourth_grade_account
    IN IF ~Truthy(fga) \/ Cardinality(Range(fga)) = 1
       THEN IF ~DatesMatchNums(use_dates, nums) THEN Raise(p, "AssertionError")
            ELSE LET account == remove_duplicated_account(fga)
                     z == Zip(use_dates, nums)
                 IN [p EXCEPT
                       !.subjects_dict[token].Period =
                           @ \o [i \in 1..Len(z) |-> z[i][1]],
                       !.data =
                           @ \o [i \in 1..Len(z) |->
                                    Row(p, token, account, z[i][1], z[i][2])]]
       ELSE IF use_dates = <<>> THEN Raise(p, "IndexError")
            ELSE LET use_date == use_dates[1]
                     z == Zip(nums, fga)
                 IN [p EXCEPT
                       !.subjects_dict[token].Period = Append(@, use_date),
                       !.data =
                           @ \o [i \in 1..Len(z) |->
                                    Row(p, token, z[i][2], use_date, z[i][1])]]

\* the characters of the class [其他合計...]$ built from referred_accounts
ReferredChars == UNION {Range(a) : a \in REFERRED_ACCOUNTS}

\* EndsReferred as an alternation of the names: the key ends in one of them
EndsInReferredName(account) ==
    \E a \in REFERRED_ACCOUNTS :
        Len(account) >= Len(a)
        /\ SubSeq(account, Len(account) - Len(a) + 1, Len(account)) = a

\* re.search(rf"[{''.join(self.referred_accounts)}]$", last_account)
EndsReferred(account) == account # <<>> /\ account[Len(account)] \in ReferredChars

\* the index of the first "-" of s at or after i, or 0
RECURSIVE DashFrom(_, _)
DashFrom(s, i) ==
    IF i > Len(s) THEN 0 ELSE IF s[i] = "-" THEN i ELSE DashFrom(s, i + 1)

\* last_account.split("-")[1], when there is a "-"
SplitDash1(s) ==
    LET a == DashFrom(s, 1)
        b == DashFrom(s, a + 1)
    IN SubSeq(s, a + 1, IF b = 0 THEN Len(s) ELSE b - 1)

\* change_token with the decrement of line 507 made without the test of
\* line 504
ChangeTokenAlwaysDecrement(p, token) ==
    IF token \notin REFERRED_ACCOUNTS \/ p.data = <<>> THEN [p |-> p, token |-> token]
    ELSE
    LET last_account == p.data[Len(p.data)].Account
        last_account_d == p.subjects_dict[last_account]
    IN IF ~EndsReferred(last_account)
       THEN LET p1 == [p EXCEPT !.other_count = last_account_d.Count]
            IN IF ~last_account_d.has_Subject
               THEN [p |-> Raise(p1, "KeyError"), token |-> token]
               ELSE [p |-> [p1 EXCEPT !.other_count = @ - 1],
                     token |-> last_account_d.Subject \o <<"-">> \o token]
       ELSE IF DashFrom(last_account, 1) = 0
            THEN [p |-> Raise(p, "IndexError"), token |-> token]
            ELSE [p |-> [p EXCEPT !.other_count = @ - 1],
                  token |-> IF SplitDash1(last_account) = token
                            THEN last_account ELSE token]

\* change_token: [p |-> the parser after the call, token |-> the result]
change_token(p, token) ==
    IF token \notin REFERRED_ACCOUNTS \/ p.data = <<>> THEN [p |-> p, token |-> token]
    ELSE
    LET last_account == p.data[Len(p.data)].Account
        last_account_d == p.subjects_dict[last_account]
    IN IF ~EndsReferred(last_account)
       THEN \* _reset_other_count, then the qualified key
            LET p1 == [p EXCEPT !.other_count = last_account_d.Count]
            IN IF ~last_account_d.has_Subject
               THEN [p |-> Raise(p1, "KeyError"), token |-> token]
               ELSE [p |-> [p1 EXCEPT !.other_count = @ - 1],
                     token |-> last_account_d.Subject \o <<"-">> \o token]
       ELSE IF p.other_count > 0
       THEN IF DashFrom(last_account, 1) = 0
            THEN [p |-> Raise(p, "IndexError"), token |-> token]
            ELSE [p |-> [p EXCEPT !.other_count = @ - 1],
                  token |-> IF SplitDash1(last_account) = token
                            THEN last_account ELSE token]
       ELSE [p |-> p, token |-> token]

\* _reset_fourth_grade_account_and_category
_reset_fourth_grade_account_and_category(p, token) ==
    IF p.data = <<>> \/ ~(Truthy(p.category) /\ Truthy(p.fourth_grade_account))
    THEN p
    ELSE LET last_account == p.data[Len(p.data)].Account
         IN IF ~p.subjects_dict[last_account].has_Subject
               \/ ~p.subjects_dict[token].has_Subject
            THEN Raise(p, "KeyError")
            ELSE IF p.subjects_dict[last_account].Subject
                    # p.subjects_dict[token].Subject
            THEN [p EXCEPT !.fourth_grade_account = NoneList, !.category = None]
            ELSE p

\* remove_token: the sentence without its tokens that are registry keys
remove_token(p) ==
    LET kept(seg) == seg \notin DOMAIN p.subjects_dict
    IN Flatten(SelectSeq(p._sentence, kept))

HasDigit(s) == \E i \in 1..Len(s) : IsDigit(s[i])

-----------------------------------------------------------------------------
(* The steps of parse() on one line.  A line is a sequence of segments;    *)
(* prev is the line before it in the content (<<>> for the first line).    *)

\* the characters of the numerals of SUBJECT_PATTERN that the lines use
\*   yi1 = one, er = two, san = three
Numerals == {"yi1", "er", "san"}

\* the end of the run of characters of the set C that starts at i (i - 1 if none)
RECURSIVE RunOf(_, _, _)
RunOf(s, i, C) ==
    IF i <= Len(s) /\ s[i] \in C THEN RunOf(s, i + 1, C) ELSE i - 1

\* the end of a match of "\(" C+ "\)" at i, or 0
ParenMatchEnd(s, i, C) ==
    IF At(s, i) # "(" THEN 0
    ELSE LET e == RunOf(s, i + 1, C)
         IN IF e >= i + 1 /\ At(s, e + 1) = ")" THEN e + 1 ELSE 0

\* the spans of the matches of "\(" C+ "\)" from i on, left to right
RECURSIVE ParenSpansFrom(_, _, _)
ParenSpansFrom(s, i, C) ==
    IF i > Len(s) THEN <<>>
    ELSE LET e == ParenMatchEnd(s, i, C)
         IN IF e = 0 THEN ParenSpansFrom(s, i + 1, C)
            ELSE <<<<i, e>>>> \o ParenSpansFrom(s, e + 1, C)

\* the spans of the occurrences of sub in s from i on, left to right
RECURSIVE SubSpansFrom(_, _, _)
SubSpansFrom(s, sub, i) ==
    IF i + Len(sub) - 1 > Len(s) THEN <<>>
    ELSE IF SubSeq(s, i, i + Len(sub) - 1) = sub
    THEN <<<<i, i + Len(sub) - 1>>>> \o SubSpansFrom(s, sub, i + Len(sub))
    ELSE SubSpansFrom(s, sub, i + 1)

\* 重要會計項目之說明: the marker of the notes section
NotesMarker == <<"zhong", "yao", "kuai", "ji", "xiang4", "mu", "zhi1", "shuo", "ming">>

\* combining_words = ["認列收入"]
CombiningWord == <<"ren", "lie", "shou", "ru">>

\* _wanted_words = ["費損之存貨成本"]
WantedWord == <<"fei", "sun", "zhi1", "cun", "huo", "cheng1", "ben">>

\* _does_reach_important_accounts without its test of the marker
ReachedAtAnyLine(p, sentence) == [p EXCEPT !.access_import_subjects = TRUE]

\* _does_reach_important_accounts
_does_reach_important_accounts(p, sentence) ==
    IF Contains(Flatten(_clean_sentence(sentence)), NotesMarker)
    THEN [p EXCEPT !.access_import_subjects = TRUE]
    ELSE p

\* re.search(BREAK_DATE_PATTERN, s): "^至\d+月\d+"
IsBreakDate(s) ==
    /\ At(s, 1) = "zhi"
    /\ LET e == RunOf(s, 2, Digits)
       IN e >= 2 /\ At(s, e + 1) = "yue" /\ IsDigit(At(s, e + 2))

\* _reform_sentence: [p, sentence].  continued_words is "", so no token is
\* one of the continued words.
_reform_sentence(p, line, prev) ==
    LET last_cleaned_sentence == _clean_sentence(prev)
        cur_cleaned_sentence == _clean_sentence(line)
    IN IF Contains(Flatten(cur_cleaned_sentence), CombiningWord)
       THEN [p |-> [p EXCEPT !.last_sentence = @ \o Flatten(cur_cleaned_sentence)],
             sentence |-> cur_cleaned_sentence]
       ELSE IF IsBreakDate(Flatten(line))
       THEN [p |-> p, sentence |-> last_cleaned_sentence \o cur_cleaned_sentence]
       ELSE [p |-> p, sentence |-> cur_cleaned_sentence]

\* re.sub(SUBJECT_PATTERN, "", self._sentence)
RemoveSubjectNums(s) ==
    Flatten(RemovePositions(<<s>>, SpanPositions(ParenSpansFrom(s, 1, Numerals))))

\* _is_new_subject: whether the line is a subject header
_is_new_subject(p) ==
    RemoveSubjectNums(Flatten(p._sentence)) \in DOMAIN p.main_subjects

\* ResetDuplicatedPeriods without its loop
ResetNoPeriods(d) == d

\* for subject in self.duplicated_accounts: subjects_dict[subject]["Period"] = []
ResetDuplicatedPeriods(d) ==
    [k \in DOMAIN d |->
        IF k \in DUPLICATED_CONTENT
        THEN [d[k] EXCEPT !.Period = <<>>, !.has_Period = TRUE]
        ELSE d[k]]

\* _initialize_params_if_new_subject without its resets
KeepParamsIfNewSubject(p) ==
    [p EXCEPT !._cur_subject = RemoveSubjectNums(Flatten(p._sentence))]

\* _initialize_params_if_new_subject with the rows of the subject before
\* dropped as well
InitializeParamsAndData(p) ==
    [p EXCEPT !._cur_subject = RemoveSubjectNums(Flatten(p._sentence)),
              !.other_count = 0,
              !.fourth_grade_account = <<>>,
              !.use_dates = <<>>,
              !.category = None,
              !.last_sentence = <<>>,
              !._remark = <<>>,
              !.subjects_dict = ResetDuplicatedPeriods(@),
              !.data = <<>>]

\* _is_new_subject's assignment, then _initialize_params_if_new_subject
_initialize_params_if_new_subject(p) ==
    [p EXCEPT !._cur_subject = RemoveSubjectNums(Flatten(p._sentence)),
              !.other_count = 0,
              !.fourth_grade_account = <<>>,
              !.use_dates = <<>>,
              !.category = None,
              !.last_sentence = <<>>,
              !._remark = <<>>,
              !.subjects_dict = ResetDuplicatedPeriods(@)]

\* _is_remark: re.search("^\d\.|\(\d\.{,1}\)", self._sentence)
_is_remark(p) ==
    LET s == Flatten(p._sentence)
    IN \/ IsDigit(At(s, 1)) /\ At(s, 2) = "."
       \/ \E i \in 1..Len(s) :
             /\ s[i] = "(" /\ IsDigit(At(s, i + 1))
             /\ \/ At(s, i + 2) = ")"
                \/ At(s, i + 2) = "." /\ At(s, i + 3) = ")"

\* _record_remark
_record_remark(p) ==
    IF Contains(Flatten(p._sentence), WantedWord) THEN p
    ELSE IF p._remark = <<>> THEN [p EXCEPT !._remark = Flatten(p._sentence)]
    ELSE IF p.data = <<>> THEN Raise(p, "IndexError")
    ELSE IF p._cur_subject \notin DOMAIN p.main_subjects THEN Raise(p, "KeyError")
    ELSE [p EXCEPT !.main_subjects[p._cur_subject] = @ \o p._remark,
                   !._remark = <<>>]

\* lines 420-423: the dates transformed, sorted and appended to use_dates
ExtendUseDates(p, transformed) ==
    IF DatesError(transformed) # "" THEN Raise(p, DatesError(transformed))
    ELSE [p EXCEPT !.use_dates = @ \o SortDesc(transformed),
                   !.g_extended = Append(@, p.use_dates \o SortDesc(transformed))]

\* lines 405-423, for the matches dates_str at the positions R of the text
ExtractDates(p, dates_str, R) ==
    ExtendUseDates([p EXCEPT !._sentence = RemovePositions(@, R),
                             !.g_dates = @ \o dates_str],
                   [i \in 1..Len(dates_str) |-> transform_date(dates_str[i])])

\* _reform_sentence_and_extract_dates_str_and_locs
_reform_sentence_and_extract_dates_str_and_locs(p) ==
    ExtractDates(p, _extract_dates(Flatten(p._sentence)),
                 SpanPositions(PeriodSpans(Flatten(p._sentence))))

\* _are_all_tokens_subjects(tokens) for a list
AllTokensSubjects(p, tokens) ==
    \A i \in 1..Len(tokens) : tokens[i] \in DOMAIN p.subjects_dict

\* the tokens of _are_all_tokens_subjects(sentence) for a str: the segments
\* of the line without its spaces
TokensOf(line) == RemovePositions(line, {i \in 1..Len(Flatten(line)) : Flatten(line)[i] = " "})

HasDuplicates(tokens) == Cardinality(Range(tokens)) # Len(tokens)

\* the wide header branch of _is_sentence_skippable (lines 193-213), for the
\* tokens of the line: [p, ret, branch]
WideHeaderTokens(p, line, tokens) ==
    IF AllTokensSubjects(p, tokens) /\ HasDuplicates(tokens)
    THEN [p |-> [p EXCEPT !._tokens = tokens, !.fourth_grade_account = tokens],
          ret |-> TRUE, branch |-> "wide_duplicated"]
    ELSE IF AllTokensSubjects(p, tokens)
    THEN [p |-> [p EXCEPT !._tokens = tokens],
          ret |-> FALSE, branch |-> "wide_subjects"]
    ELSE IF p.last_sentence # <<>>
    THEN [p |-> [p EXCEPT !._tokens = tokens,
                          !.fourth_grade_account =
                              merge_subjects(p.last_sentence, Flatten(line))],
          ret |-> TRUE, branch |-> "wide_merged"]
    ELSE [p |-> [p EXCEPT !._tokens = tokens, !.last_sentence = Flatten(line)],
          ret |-> TRUE, branch |-> "wide_stashed"]

WideHeader(p, line) == WideHeaderTokens(p, line, TokensOf(line))

\* the short line branch of _is_sentence_skippable (lines 179-188)
ShortLine(p, line) ==
    IF In("yue", Flatten(line))
    THEN [p |-> _reform_sentence_and_extract_dates_str_and_locs(p),
          ret |-> TRUE, branch |-> "short_dates"]
    ELSE IF Flatten(p._sentence) \in DOMAIN p.subjects_dict
    THEN [p |-> IF p.fourth_grade_account = NoneList
                THEN Raise(p, "AttributeError")
                ELSE [p EXCEPT !.fourth_grade_account =
                                   Append(@, Flatten(p._sentence))],
          ret |-> TRUE, branch |-> "short_account"]
    ELSE [p |-> [p EXCEPT !.last_sentence = @ \o Flatten(p._sentence)],
          ret |-> TRUE, branch |-> "short_text"]

\* SkippableReformed with the test of the length before the test of a subject
SkippableShortFirst(p, line) ==
    IF Len(Flatten(line)) <= 15 THEN ShortLine(p, line)
    ELSE IF _is_new_subject(p)
    THEN [p |-> _initialize_params_if_new_subject(p),
          ret |-> TRUE, branch |-> "new_subject"]
    ELSE [p |-> p, ret |-> FALSE, branch |-> "account_line"]

\* _is_sentence_skippable after line 156, p._sentence being the reformed
\* sentence: [p, ret, branch]
SkippableReformed(p, line) ==
    IF _is_new_subject(p)
    THEN [p |-> _initialize_params_if_new_subject(p),
          ret |-> TRUE, branch |-> "new_subject"]
    ELSE IF _is_remark(p)
    THEN [p |-> _record_remark(p), ret |-> TRUE, branch |-> "remark"]
    ELSE IF p._remark # <<>>
    THEN [p |-> [p EXCEPT !._remark = @ \o Flatten(p._sentence)],
          ret |-> TRUE, branch |-> "remark_text"]
    ELSE IF Len(Flatten(line)) <= 15 THEN ShortLine(p, line)
    ELSE IF /\ Len(Flatten(line)) >= 60
            \* clean_percentage <= 0.3
            /\ 10 * Len(Flatten(p._sentence)) <= 3 * (Len(Flatten(line)) + 1)
            /\ ~Truthy(p.fourth_grade_account)
    THEN WideHeader(p, line)
    ELSE [p |-> p, ret |-> FALSE, branch |-> "account_line"]

\* self._sentence = self._reform_sentence(i), r being what it returned
SetSentence(r) == [r.p EXCEPT !._sentence = r.sentence]

\* _is_sentence_skippable: [p, ret, branch]
_is_sentence_skippable(p, line, prev) ==
    IF ~p.access_import_subjects
    THEN [p |-> _does_reach_important_accounts(p, line),
          ret |-> TRUE, branch |-> "scanning"]
    ELSE SkippableReformed(SetSentence(_reform_sentence(p, line, prev)), line)

\* _extract_subject_annotations, for the text s of the sentence and the
\* spans sp of CHINESE_ANNOTATION_PATTERN in it.  The matched text "(...)" is
\* used as the pattern of re.sub: it is a group, and removes the occurrences
\* of the text between the parentheses.
AnnotationsAt(p, s, sp) ==
    IF sp = <<>> THEN [p EXCEPT !._subject_annotations = <<>>]
    ELSE [p EXCEPT
            !._subject_annotations = SubSeq(s, sp[1][1], sp[1][2]),
            !._sentence =
                RemovePositions(@, SpanPositions(SubSpansFrom(s,
                    SubSeq(s, sp[1][1] + 1, sp[1][2] - 1), 1)))]

\* the CJK ideographs of a text
HanOf(s) == {c \in Range(s) : IsHan(c)}

\* _extract_subject_annotations
_extract_subject_annotations(p) ==
    AnnotationsAt(p, Flatten(p._sentence),
                  ParenSpansFrom(Flatten(p._sentence), 1, HanOf(Flatten(p._sentence))))

\* _is_category_token without its comparison
NeverCategoryToken(p, tokens) == FALSE

\* _is_category_token, when _find_usable_dates does not raise
_is_category_token(p, tokens) ==
    IF ~Truthy(p.fourth_grade_account)
    THEN Len(_find_usable_dates(p, tokens[1])) > Len(tokens)
    ELSE FALSE

\* the entry of the history for the decision of lines 134-139 on tokens
HeaderEntry(p, tokens) ==
    [tokens |-> tokens, use_dates |-> p.use_dates,
     fourth |-> p.fourth_grade_account, category |-> p.category,
     has_Period |-> p.subjects_dict[tokens[1]].has_Period,
     unconsumed |-> _find_usable_dates(p, tokens[1])]

\* lines 134-139 of parse: the category or column header decision
DecideHeader(p, tokens) ==
    LET p1 == [p EXCEPT !._tokens = tokens,
                        !.g_header = IF AllTokensSubjects(p, tokens) /\ tokens # <<>>
                                     THEN <<HeaderEntry(p, tokens)>> ELSE <<>>]
    IN IF ~(AllTokensSubjects(p, tokens) /\ tokens # <<>>) THEN p1
       ELSE IF FindUsableDatesFails(p, tokens[1]) THEN Raise(p1, "KeyError")
       ELSE IF _is_category_token(p, tokens)
       THEN [p1 EXCEPT !.category = tokens[1], !.g_decision = "category"]
       ELSE IF p.use_dates = <<>> THEN Raise(p1, "IndexError")
       ELSE [p1 EXCEPT !.use_dates = <<p.use_dates[Len(p.use_dates)]>>,
                       !.fourth_grade_account = tokens,
                       !.g_decision = "header"]

\* the history after change_token(token) returned c, for a referred account
\* and a parser p that holds records
StreakAfter(p, token, c) ==
    LET last == p.data[Len(p.data)].Account
        s == p.g_streak
    IN IF ~EndsInReferredName(last)
       THEN [on |-> TRUE, A |-> last, S |-> p.subjects_dict[last].Subject,
             n |-> p.subjects_dict[last].Count, t |-> token,
             outs |-> IF c.p.err = "" THEN <<c.token>> ELSE <<>>,
             emitted |-> 0, at |-> Len(p.data)]
       ELSE IF s.on /\ s.t = token /\ s.emitted = Len(s.outs)
               /\ s.at = Len(p.data) /\ c.p.err = ""
       THEN [s EXCEPT !.outs = Append(@, c.token)]
       ELSE [s EXCEPT !.on = FALSE]

\* the history after the records of the classified token were appended
StreakEmitted(p, token) ==
    IF token \in REFERRED_ACCOUNTS /\ p.g_streak.on /\ p.err = ""
       /\ Len(p.g_streak.outs) = p.g_streak.emitted + 1
       /\ Len(p.data) > p.g_streak.at
    THEN [p.g_streak EXCEPT !.emitted = @ + 1, !.at = Len(p.data)]
    ELSE p.g_streak

\* the entry of the history for a call _append_data(token, nums) on p that
\* ended with the exception err
AsmEntry(p, token, nums, err) ==
    [token |-> token, nums |-> nums,
     has_Period |-> p.subjects_dict[token].has_Period,
     dates |-> IF p.subjects_dict[token].has_Period
               THEN _find_usable_dates(p, token) ELSE <<>>,
     fourth |-> p.fourth_grade_account,
     period |-> p.subjects_dict[token].Period,
     category |-> p.category,
     before |-> Len(p.data), err |-> err]

\* the history after _append_data returned p3
LogAppend(p3, raw, entry) ==
    [p3 EXCEPT !.g_streak = StreakEmitted(p3, raw),
               !.g_asm = Append(@, [entry EXCEPT !.err = p3.err])]

\* lines 228-229, for the token change_token returned (raw before it)
AppendNums(p, raw, token, nums) ==
    LogAppend(_append_data(p, token, nums), raw, AsmEntry(p, token, nums, ""))

\* lines 227-229, p1 being the parser after line 226
CountAndAppend(p1, raw, token) ==
    IF p1.err # "" THEN p1
    ELSE AppendNums([p1 EXCEPT !.subjects_dict[token].Count = @ + 1], raw, token,
                    extract_subject_nums(remove_token(p1)))

\* the history after _reset_fourth_grade_account_and_category(token) on p
\* returned r
LogReset(p, token, r) ==
    [r EXCEPT !.g_reset = Append(@,
        [token |-> token,
         last |-> IF p.data = <<>> THEN None ELSE p.data[Len(p.data)].Account,
         category |-> p.category, fourth |-> p.fourth_grade_account,
         category_after |-> r.category, fourth_after |-> r.fourth_grade_account,
         err |-> r.err])]

\* AfterChangeToken without the test of a digit in the sentence
AfterChangeTokenAnyLine(pc, raw, token) ==
    IF pc.err # "" THEN pc
    ELSE IF token \notin DOMAIN pc.subjects_dict THEN pc
    ELSE CountAndAppend(LogReset(pc, token,
                                 _reset_fourth_grade_account_and_category(pc, token)),
                        raw, token)

\* lines 224-229, pc being the parser after change_token returned token
AfterChangeToken(pc, raw, token) ==
    IF pc.err # "" THEN pc
    ELSE IF ~(token \in DOMAIN pc.subjects_dict /\ HasDigit(Flatten(pc._sentence)))
    THEN pc
    ELSE CountAndAppend(LogReset(pc, token,
                                 _reset_fourth_grade_account_and_category(pc, token)),
                        raw, token)

\* the history after change_token(token) returned c
LogChange(p, token, c) ==
    IF token \in REFERRED_ACCOUNTS
    THEN [c.p EXCEPT
            !.g_cls = Append(@,
               [raw |-> token, out |-> c.token,
                last |-> IF p.data = <<>> THEN None
                         ELSE p.data[Len(p.data)].Account,
                count |-> p.other_count, err |-> c.p.err]),
            !.g_streak = IF p.data = <<>> THEN @ ELSE StreakAfter(p, token, c)]
    ELSE c.p

\* lines 222-229, c being what change_token(token) returned
ChangedToken(p, token, c) == AfterChangeToken(LogChange(p, token, c), token, c.token)

\* what an iteration of the loop of _process_tokens may change, apart from
\* other_count
TokenFrame(p) ==
    [data |-> p.data, subjects_dict |-> p.subjects_dict, category |-> p.category,
     fourth |-> p.fourth_grade_account, err |-> p.err]

\* the history after the iteration for token, which change_token left as c
\* and the whole iteration as r
LogToken(p, token, c, r) ==
    [r EXCEPT !.g_tok = Append(@,
        [raw |-> token, token |-> c.token, classified |-> c.p.err = "",
         known |-> c.token \in DOMAIN p.subjects_dict,
         digit |-> HasDigit(Flatten(p._sentence)),
         before |-> TokenFrame(p), after |-> TokenFrame(r)])]

\* the body of the loop of _process_tokens for one token
ProcessToken(p, token) ==
    LogToken(p, token, change_token(p, token),
             ChangedToken(p, token, change_token(p, token)))

\* _process_tokens: the loop ends at the first exception
RECURSIVE _process_tokens(_, _)
_process_tokens(p, tokens) ==
    IF tokens = <<>> \/ p.err # "" THEN p
    ELSE _process_tokens(ProcessToken(p, Head(tokens)), Tail(tokens))

\* lines 133-141, after _extract_subject_annotations
ParseTokens(p, br) ==
    [p |-> IF DecideHeader(p, p._sentence).err # ""
           THEN DecideHeader(p, p._sentence)
           ELSE _process_tokens(DecideHeader(p, p._sentence), p._sentence),
     branch |-> br]

\* lines 130-141, after the period extraction
ParseExtracted(p, br) ==
    IF p.err # "" THEN [p |-> p, branch |-> br]
    ELSE ParseTokens(_extract_subject_annotations(p), br)

\* lines 123-141, k being what _is_sentence_skippable returned
ParseSkippable(k, line) ==
    IF k.ret \/ k.p.err # "" THEN [p |-> k.p, branch |-> k.branch]
    ELSE ParseExtracted(IF In("yue", Flatten(line))
                        THEN _reform_sentence_and_extract_dates_str_and_locs(k.p)
                        ELSE k.p,
                        k.branch)

\* the body of the loop of parse() for one line: [p, branch]
ParseSentence(p, line, prev) ==
    ParseSkippable(_is_sentence_skippable(p, line, prev), line)

-----------------------------------------------------------------------------
(* The lines of a statement.                                               *)

Spaces(n) == [i \in 1..n |-> " "]

\* 111年1月1日至3月31日 and 111年8月1日, as printed
RawQ1 == <<"1", "1", "1", "nian", "1", "yue", "1", "ri", "zhi", "3", "yue", "3", "1", "ri">>
RawAug1 == <<"1", "1", "1", "nian", "8", "yue", "1", "ri">>
\* the same two after the line cleaner removed the day marker
CleanQ1 == <<"1", "1", "1", "nian", "1", "yue", "1", "zhi", "3", "yue", "3", "1">>
CleanAug1 == <<"1", "1", "1", "nian", "8", "yue", "1">>

Pad == Spaces(14)

\* 111年3月31日 and 110年12月31日
Mar31 == <<"1", "1", "1", "nian", "3", "yue", "3", "1", "ri">>
Dec31 == <<"1", "1", "0", "nian", "1", "2", "yue", "3", "1", "ri">>

\* 111年2月1日至4月30日: a range the table does not hold
RawFebApr == <<"1", "1", "1", "nian", "2", "yue", "1", "ri", "zhi", "4", "yue", "3", "0", "ri">>

\* two rows of a header too wide for a line: 土地及 over 改良物, and 設備
\* in the second row alone (she bei = equipment, ji5 = and,
\* gai liang wu = improvements)
WideRow1 ==
    << Spaces(20), Land, <<"ji5">>, Spaces(40) >>
WideRow2 ==
    << Spaces(20), <<"gai">>, <<"liang">>, <<"wu">>, Spaces(10),
       <<"she">>, <<"bei">>, Spaces(28) >>

\* 1: the notes marker.  2, 3, 28: subject headers.  4-7, 29, 30: periods.
\* 8-17, 27: account lines.  18-20: numbered remarks (20 with the wanted
\* phrase).  21, 22: a combining word.  23: a short text.  24, 25: the rows
\* of a wide header.  26: a blank line.
Lines ==
    << <<NotesMarker>>,                                          \* 1
       << <<"(", "yi1", ")">>, PPE >>,                           \* 2
       << <<"(", "er", ")">>, INV >>,                            \* 3
       << Mar31, <<" ">>, Dec31 >>,                              \* 4
       << RawAug1 >>,                                            \* 5
       << RawQ1 >>,                                              \* 6
       << RawFebApr >>,                                          \* 7
       << Land, Pad, <<"1", ",", "2", "3", "4">>, <<" ">>,
          <<"5", ",", "6", "7", "8", ")">> >>,                   \* 8
       << Land, Pad, <<"1", "0", "0">> >>,                       \* 9
       << BookValue, Pad, <<"7">> >>,                            \* 10
       << Other, Pad, <<"5", "0">> >>,                           \* 11
       << Other, Pad, <<"5", "0">>, <<" ">>, <<"-">> >>,         \* 12
       << Land, <<" ">>, RawMat, Pad >>,                         \* 13
       << RawMat, Pad, <<"3">>, <<" ">>, <<"-">> >>,             \* 14
       << Land >>,                                               \* 15
       << Land, Pad >>,                                          \* 16
       << RawMat, Pad, <<"1", ",", "0", "0", "0">>, <<" ">>,
          <<"2", ",", "0", "0", "0">>, <<" ">>,
          <<"3", ",", "0", "0", "0">> >>,                        \* 17
       << <<"1">>, <<".">>, <<"shuo">>, <<"ming">> >>,           \* 18
       << <<"(">>, <<"2">>, <<")">>, <<"shuo">>, <<"ming">> >>,  \* 19
       << <<"1">>, <<".">>, <<"fei">>, <<"sun">>, <<"zhi1">>, INV, Cost >>,  \* 20
       << <<"ren">>, <<"lie">>, <<"shou">>, <<"ru">> >>,         \* 21
       << <<"ren">>, <<"lie">>, <<"shou">>, <<"ru">>, RawAug1 >>,  \* 22
       << <<"she">>, <<"bei">> >>,                               \* 23
       WideRow1,                                                 \* 24
       WideRow2,                                                 \* 25
       << >>,                                                    \* 26
       << RawMat, Pad, <<"3">> >>,                               \* 27
       << INV >>,                                                \* 28
       << Mar31, <<" ">>, RawQ1 >>,                              \* 29
       << Dec31, <<" ">>, Mar31 >>                               \* 30
    >>

-----------------------------------------------------------------------------------------------------------------------------------------------------
(* The parser as a state machine: content is fixed at construction, and    *)
(* one step is one iteration of the loop of parse().  A content is a list  *)
(* of indexes into Lines.                                                  *)

\* how a content starts: nothing; the notes marker and a subject header;
\* these and a line of dates
Prefixes == { <<>>, <<1, 2>>, <<1, 2, 4>>, <<1, 2, 5>> }

\* the contents: a prefix and up to MaxBody lines of the catalogue, and
\* eleven longer statements
\*   two assemblies of an account, then the ambiguous account three times
\*   the same with an account whose name ends in a character of the
\*   ambiguous names in between
\*   a second subject header after assemblies of an ambiguous account
\*   an assembly over two dates, then one over two sub-accounts
\*   the ambiguous account twice after one assembly of an account whose
\*   name ends in a character of the ambiguous names
\*   a category label, column headers, a record, then an account of another
\*   subject
\*   a category label, records, then an account of another subject
\*   a remark, an account line, a second remark, an account line
\*   the fifth statement, then a short line that is a registry key
\*   a date, then a line of a date and a fiscal-period label
\*   a date, then a line of two dates with the older one first
Statements ==
    { <<1, 2, 4, 13, 9, 5, 9, 11, 11, 11>>,
      <<1, 2, 4, 13, 9, 5, 9, 11, 10, 11>>,
      <<1, 2, 5, 9, 11, 11, 3, 5, 10>>,
      <<1, 2, 4, 8, 13, 14>>,
      <<1, 2, 5, 10, 11, 6, 11>>,
      <<1, 2, 4, 16, 13, 9, 27>>,
      <<1, 2, 4, 16, 8, 14>>,
      <<1, 2, 5, 9, 18, 9, 19, 9>>,
      <<1, 2, 4, 16, 13, 9, 27, 15>>,
      <<1, 2, 5, 29, 9>>,
      <<1, 2, 5, 30, 8>> }

\* the lines of tables: periods and account lines
TableLines == 1..17

\* the lines the tests of _is_sentence_skippable tell apart
TestedLines == {3, 9, 15} \cup 18..28

\* how a content of tested lines starts: the marker, a subject header and a
\* period; these and the records of an account line
TestedPrefixes == { <<1, 2, 5>>, <<1, 2, 5, 9>> }

Contents ==
    {pf \o b : pf \in Prefixes, b \in StringsUpTo(TableLines, MaxBody)}
    \cup {pf \o b : pf \in TestedPrefixes, b \in StringsUpTo(TestedLines, MaxBody)}
    \cup Statements

\* the parser before a line: the history of the line before is dropped
StartLine(p) ==
    [p EXCEPT !.g_asm = <<>>, !.g_cls = <<>>, !.g_dates = <<>>, !.g_decision = "",
              !.g_extended = <<>>, !.g_header = <<>>, !.g_reset = <<>>,
              !.g_tok = <<>>]

Init ==
    /\ content \in Contents
    /\ parser = NewParser
    /\ cur = 0
    /\ branch = "init"
    /\ fin = <<>>
    /\ fout = <<>>
    /\ fpc = "parse"

\* the parser and the branch taken after an iteration that returned r
Parsed(r) == parser' = r.p /\ branch' = r.branch

\* for i, sentence in enumerate(self.content): one iteration
ParseLine ==
    /\ fpc = "parse"
    /\ parser.err = ""
    /\ cur < Len(content)
    /\ Parsed(ParseSentence(StartLine(parser), Lines[content[cur + 1]],
                            IF cur = 0 THEN <<>> ELSE Lines[content[cur]]))
    /\ cur' = cur + 1
    /\ UNCHANGED <<content, fin, fout, fpc>>

Next == ParseLine

Spec == Init /\ [][Next]_vars

-----------------------------------------------------------------------------
(* Record assembly. *)

\* the rows the j-th call of _append_data of the last line appended
AsmRows(j) ==
    SubSeq(parser.data, parser.g_asm[j].before + 1,
           IF j < Len(parser.g_asm) THEN parser.g_asm[j + 1].before
           ELSE Len(parser.data))

Asms == 1..Len(parser.g_asm)

\* a call of _append_data on an entry that holds a Period list, with no
\* sub-account pending
AsmNoPending(a) == a.has_Period /\ a.fourth = <<>>

\* a call with k >= 2 sub-accounts pending, distinct from each other
AsmSubAccounts(a) ==
    /\ a.has_Period
    /\ Truthy(a.fourth)
    /\ Len(a.fourth) >= 2
    /\ Cardinality(Range(a.fourth)) = Len(a.fourth)

\* C1 (a): with no sub-account pending, n usable dates and n numbers, the
\* call appends exactly n rows, all under the token, the i-th with the i-th
\* usable date and the i-th number
C1_DatesBranch ==
    \A j \in Asms :
        LET a == parser.g_asm[j]
        IN AsmNoPending(a) /\ Len(a.dates) = Len(a.nums)
           => /\ Len(AsmRows(j)) = Len(a.nums)
              /\ \A i \in 1..Len(a.nums) :
                    /\ AsmRows(j)[i].Account = a.token
                    /\ AsmRows(j)[i].Period = a.dates[i]
                    /\ AsmRows(j)[i].Value = a.nums[i]

\* C1 (b): with k >= 2 distinct sub-accounts pending, one usable date and k
\* numbers, the call appends exactly k rows, all with that date, the i-th
\* with the i-th number and the i-th sub-account
C1_SubAccountsBranch ==
    \A j \in Asms :
        LET a == parser.g_asm[j]
        IN AsmSubAccounts(a) /\ Len(a.dates) = 1 /\ Len(a.nums) = Len(a.fourth)
           => /\ Len(AsmRows(j)) = Len(a.fourth)
              /\ \A i \in 1..Len(a.fourth) :
                    /\ AsmRows(j)[i].Account = a.token
                    /\ AsmRows(j)[i].Period = a.dates[1]
                    /\ AsmRows(j)[i].Value = a.nums[i]
                    /\ AsmRows(j)[i].Fourth = a.fourth[i]

AsmFirstBranch(a) ==
    a.has_Period /\ (~Truthy(a.fourth) \/ Cardinality(Range(a.fourth)) = 1)

C3_Original ==
    \A j \in Asms :
        LET a == parser.g_asm[j]
        IN /\ a.has_Period /\ Truthy(a.fourth)
           /\ Cardinality(Range(a.fourth)) >= 2
           /\ a.dates # <<>>
           /\ Len(a.nums) # Len(a.fourth)
           => a.err = "AssertionError" /\ AsmRows(j) = <<>>

-----------------------------------------------------------------------------
(* Subject headers. *)

\* the step handled a line as a subject header
HeaderStep == branch' = "new_subject"

\* C4: state reset on a subject header.  Immediately after a line recognised
\* as a new subject (the notes section reached), category is None,
\* fourth_grade_account and use_dates are empty, other_count is 0, _remark
\* and last_sentence are empty, _cur_subject is the main subject the line
\* names, and the line appended no record.
C4_HeaderReset ==
    [][HeaderStep =>
          /\ parser.access_import_subjects
          /\ parser'.category = None
          /\ parser'.fourth_grade_account = <<>>
          /\ parser'.use_dates = <<>>
          /\ parser'.other_count = 0
          /\ parser'._remark = <<>>
          /\ parser'.last_sentence = <<>>
          /\ parser'._cur_subject \in DOMAIN parser'.main_subjects
          /\ Contains(Flatten(Lines[content[cur']]), parser'._cur_subject)
          /\ parser'.data = parser.data
          /\ parser'.err = ""]_vars

\* C4 witness: a subject header after records were assembled under another
\* subject (so dates had been in use)
C4_Witness ==
    /\ branch = "new_subject"
    /\ parser.data # <<>>
    /\ parser.data[Len(parser.data)].Subject # parser._cur_subject
    /\ parser.use_dates = <<>>

\* a key stored as "{main subject}-{referred account}"
IsNamespaced(k) ==
    \E s \in DOMAIN parser.main_subjects, a \in REFERRED_ACCOUNTS :
        k = s \o <<"-">> \o a

\* C5, as the specification states it: immediately after a subject header the
\* Period list of every ambiguous account is empty, the base names and the
\* namespaced entries alike.
C5_Original ==
    branch = "new_subject" =>
        \A k \in DOMAIN parser.subjects_dict :
            k \in DUPLICATED_CONTENT \/ IsNamespaced(k)
            => parser.subjects_dict[k].Period = <<>>

\* C5: immediately after a subject header the Period list of every base
\* name of duplicated_accounts is empty; every other entry of the registry,
\* the namespaced ones included, is as it was before the line.
C5_HeaderResetsBaseNames ==
    [][HeaderStep =>
          \A k \in DOMAIN parser'.subjects_dict :
              IF k \in DUPLICATED_CONTENT
              THEN /\ parser'.subjects_dict[k].has_Period
                   /\ parser'.subjects_dict[k].Period = <<>>
                   /\ parser'.subjects_dict[k].Count = parser.subjects_dict[k].Count
              ELSE parser'.subjects_dict[k] = parser.subjects_dict[k]]_vars

\* C5 witness: after a subject header, in a run that assembled records under
\* a base name and under a namespaced entry: the first has no period left,
\* the second kept its own
C5_Witness ==
    /\ branch = "new_subject"
    /\ \E i \in 1..Len(parser.data) :
          /\ parser.data[i].Account \in DUPLICATED_CONTENT
          /\ parser.subjects_dict[parser.data[i].Account].Period = <<>>
    /\ \E k \in DOMAIN parser.subjects_dict :
          IsNamespaced(k) /\ parser.subjects_dict[k].Period # <<>>

-----------------------------------------------------------------------------
(* Ambiguous accounts. *)

\* C6, as the specification states it: after a record of a concrete account
\* A (its key does not end in the name of an ambiguous account) of subject S
\* with Count n, when the same ambiguous token t is classified n + 1 times
\* in a row, each occurrence assembled into records before the next one is
\* classified, the first n classifications return "S-t" and the last one
\* returns t.
C6_Original ==
    LET s == parser.g_streak
    IN s.on /\ s.n >= 1 /\ Len(s.outs) = s.n + 1 /\ s.emitted >= s.n
       => /\ \A i \in 1..s.n : s.outs[i] = s.S \o <<"-">> \o s.t
          /\ s.outs[s.n + 1] = s.t

-----------------------------------------------------------------------------
(* Ranges the table does not hold. *)

HasRange(s) == In("zhi", s) \/ In("~", s)

\* a matched period with a range marker whose month and day part is no key
\* of QUATER_MAP
UnmappedRange(d) == HasRange(d) /\ QUATER_MAP(From(d, 4)) = <<>>

\* C10, as the specification states it: a matched period with a range marker
\* whose month and day part is not in the table is dropped silently; the run
\* goes on without an error and the other periods of the line are appended
\* to use_dates.
C10_Original ==
    (\E i \in 1..Len(parser.g_dates) : UnmappedRange(parser.g_dates[i]))
    => /\ parser.err = ""
       /\ \A i \in 1..Len(parser.g_dates) :
             ~UnmappedRange(parser.g_dates[i])
             => In(transform_date(parser.g_dates[i]), parser.use_dates)

-----------------------------------------------------------------------------
(* How a run ends. *)

\* C11, as the specification states it: a run handles every line or stops
\* with the data-mismatch error of record assembly (the assert) or with the
\* date-format error of the period conversion (strptime); no other exception
\* ends a run.
C11_Original ==
    parser.err \in {"", "AssertionError", "ValueError"}

-----------------------------------------------------------------------------
(* The tests of a line, in order. *)

\* the cleaned text of the line the step handles holds the notes marker
MarkerLine == Contains(Flatten(_clean_sentence(Lines[content[cur']])), NotesMarker)

\* C13: scanning.  While the notes section is not reached every line is
\* skipped: the step appends no record and leaves every field of the parser
\* as it was, except access_import_subjects, which becomes true exactly when
\* the cleaned text of the line holds the marker; so no line up to the
\* marker starts a subject, adds a period or adds a pending sub-account.
C13_ScanningSkips ==
    [][~parser.access_import_subjects =>
          /\ branch' = "scanning"
          /\ parser' = [parser EXCEPT !.access_import_subjects = MarkerLine]]_vars

\* C13 witness: the marker reached on the second line, after a line that
\* would have been a subject header, a line of periods or an account line
C13_Witness ==
    /\ cur = 2 /\ branch = "scanning"
    /\ content[1] \in {2, 4, 9} /\ content[2] = 1
    /\ parser.access_import_subjects
    /\ parser._cur_subject = <<>> /\ parser.use_dates = <<>> /\ parser.data = <<>>

\* the cleaned text of the line the step handles, its "(numeral)" markers
\* removed, is the name of a main subject
NamesSubject ==
    RemoveSubjectNums(Flatten(_clean_sentence(Lines[content[cur']])))
        \in DOMAIN parser.main_subjects

\* C14: the first test wins.  Once the notes section is reached, a line
\* whose cleaned text without its "(numeral)" markers is the name of a main
\* subject is handled as a subject header, also when it is at most 15
\* characters long, when it is a registry key, when the remark buffer is not
\* empty: fourth_grade_account, last_sentence and _remark are empty after
\* it (the line is appended to none of them) and no record is appended.
C14_HeaderFirst ==
    [][parser.access_import_subjects /\ NamesSubject =>
          /\ branch' = "new_subject"
          /\ parser'.fourth_grade_account = <<>>
          /\ parser'.last_sentence = <<>>
          /\ parser'._remark = <<>>
          /\ parser'.data = parser.data]_vars

\* C14 witness: a subject header of two characters that is a registry key
\* too, right after the line that started a remark
C14_Witness ==
    /\ branch = "new_subject" /\ cur >= 2
    /\ Len(Flatten(Lines[content[cur]])) <= 15
    /\ Flatten(Lines[content[cur]]) \in DOMAIN parser.subjects_dict
    /\ content[cur - 1] = 18
    /\ parser._cur_subject = Flatten(Lines[content[cur]])

-----------------------------------------------------------------------------
(* Lines of registry keys only: category label or column headers. *)

\* the decision found a category label: no pending sub-account, and more
\* dates the first token has not consumed than tokens
IsCategoryLabel(h) ==
    /\ ~Truthy(h.fourth)
    /\ h.has_Period
    /\ Len(h.unconsumed) > Len(h.tokens)

IsLatest(d, ds) ==
    /\ In(d, ds)
    /\ \A i \in 1..Len(ds) : ds[i].t = d.t => ~PeriodLess(d, ds[i])

\* C16, as the specification states it: on an account line whose tokens are
\* registry keys only (at least one) and that is no category label, use_dates
\* becomes the one-element list of the latest period it held,
\* fourth_grade_account becomes the tokens of the line, and category is
\* unchanged.
C16_Original ==
    \A i \in 1..Len(parser.g_header) :
        ~IsCategoryLabel(parser.g_header[i]) =>
            /\ parser.err = ""
            /\ Len(parser.use_dates) = 1
            /\ IsLatest(parser.use_dates[1], parser.g_header[i].use_dates)
            /\ parser.fourth_grade_account = parser.g_header[i].tokens
            /\ parser.category = parser.g_header[i].category

-----------------------------------------------------------------------------
(* Remarks. *)

\* the cleaned text of the line the step handles matches the numbering of a
\* footnote
RemarkLine ==
    _is_remark([_sentence |-> _clean_sentence(Lines[content[cur']])])

\* the cleaned text of the line the step handles holds a wanted phrase
WantedLine ==
    Contains(Flatten(_clean_sentence(Lines[content[cur']])), WantedWord)

\* C17, as the specification states it: a line that matches the numbering of
\* a footnote and holds no wanted phrase starts the accumulation into
\* _remark; the block ends at the next line that is no remark: the buffer is
\* appended to the Remark of the current main subject, _remark becomes
\* empty, and the line is handled as an ordinary line.
C17_Original ==
    [][parser.access_import_subjects /\ ~NamesSubject
       /\ parser._cur_subject \in DOMAIN parser.main_subjects =>
          /\ parser._remark = <<>> /\ RemarkLine /\ ~WantedLine =>
                parser'._remark = Flatten(_clean_sentence(Lines[content[cur']]))
          /\ parser._remark # <<>> /\ ~RemarkLine =>
                /\ parser'._remark = <<>>
                /\ parser'.main_subjects[parser._cur_subject] =
                       parser.main_subjects[parser._cur_subject] \o parser._remark
                /\ branch' # "remark_text"]_vars

-----------------------------------------------------------------------------
(* The context of a record: category and pending sub-accounts. *)

\* the main subject of a registry key that has one
SubjectOf(k) == parser.subjects_dict[k].Subject

\* the call found a last record, and its account and the token both have a
\* main subject
ResetDefined(e) ==
    /\ e.last # None
    /\ parser.subjects_dict[e.last].has_Subject
    /\ parser.subjects_dict[e.token].has_Subject

\* C18, as the specification states it: when a record is about to be
\* assembled for a token and the account of the last record belongs to
\* another main subject than the token, category and fourth_grade_account
\* are cleared before the records of the token are appended, whichever of
\* the two was set; when both belong to the same main subject neither is
\* changed.
C18_Original ==
    \A i \in 1..Len(parser.g_reset) :
        LET e == parser.g_reset[i]
        IN ResetDefined(e) =>
              IF SubjectOf(e.last) # SubjectOf(e.token)
              THEN ~Truthy(e.category_after) /\ ~Truthy(e.fourth_after)
              ELSE e.category_after = e.category /\ e.fourth_after = e.fourth

-----------------------------------------------------------------------------
(* Wide headers and short lines. *)

\* the line the step handles, as text
RawLine == Flatten(Lines[content[cur']])

\* the cleaned text of that line
CleanedLine == Flatten(_clean_sentence(Lines[content[cur']]))

\* the line is no subject header, no remark, and no remark is open
PastRemarkTests ==
    /\ parser.access_import_subjects
    /\ ~NamesSubject /\ ~RemarkLine /\ parser._remark = <<>>

\* the line is at least 60 characters long and at most 0.3 of them survive
\* the cleaning
WideLine ==
    /\ Len(RawLine) >= 60
    /\ 10 * Len(CleanedLine) <= 3 * (Len(RawLine) + 1)

\* C19, as the specification states it: for a line of 60 characters or more
\* of which at most 0.3 survive the cleaning, with no pending sub-account,
\* whose tokens are not all registry keys: when last_sentence is not empty,
\* fourth_grade_account becomes merge_subjects(last_sentence, line) and
\* last_sentence is empty afterwards; when it is empty, last_sentence becomes
\* the line; in both cases the line is skipped and appends no record.
C19_Original ==
    [][PastRemarkTests /\ WideLine /\ ~Truthy(parser.fourth_grade_account)
       /\ ~AllTokensSubjects(parser, TokensOf(Lines[content[cur']])) =>
          /\ branch' \in {"wide_merged", "wide_stashed"}
          /\ parser'.data = parser.data
          /\ IF parser.last_sentence # <<>>
             THEN /\ parser'.fourth_grade_account =
                         merge_subjects(parser.last_sentence, RawLine)
                  /\ parser'.last_sentence = <<>>
             ELSE /\ parser'.last_sentence = RawLine
                  /\ parser'.fourth_grade_account = parser.fourth_grade_account]_vars

\* C20, as the specification states it: a line of at most 15 characters
\* that is no subject header and not part of a remark appends no record and
\* changes one of three things: use_dates when it holds a period indicator;
\* else fourth_grade_account, the cleaned line appended to it, when the
\* cleaned line is a registry key; else last_sentence, the cleaned line
\* concatenated to it.  category and the Count and Period of every registry
\* entry are unchanged.
C20_Original ==
    [][PastRemarkTests /\ Len(RawLine) <= 15 =>
          /\ parser'.data = parser.data
          /\ parser'.category = parser.category
          /\ parser'.subjects_dict = parser.subjects_dict
          /\ IF In("yue", RawLine)
             THEN /\ parser'.fourth_grade_account = parser.fourth_grade_account
                  /\ parser'.last_sentence = parser.last_sentence
             ELSE IF CleanedLine \in DOMAIN parser.subjects_dict
             THEN /\ parser'.fourth_grade_account =
                         Append(parser.fourth_grade_account, CleanedLine)
                  /\ parser'.use_dates = parser.use_dates
                  /\ parser'.last_sentence = parser.last_sentence
             ELSE /\ parser'.last_sentence = parser.last_sentence \o CleanedLine
                  /\ parser'.use_dates = parser.use_dates
                  /\ parser'.fourth_grade_account = parser.fourth_grade_account]_vars

-----------------------------------------------------------------------------
(* The periods of one line. *)

\* the transformed periods of the matches dates_str
KeysOf(dates_str) == [i \in 1..Len(dates_str) |-> transform_date(dates_str[i])]

\* how often x occurs in the list s
Occurrences(x, s) == Cardinality({i \in 1..Len(s) : s[i] = x})

\* no entry of the list ks is followed by a more recent one of its own kind
Descending(ks) ==
    \A i \in 1..(Len(ks) - 1) : ks[i].t = ks[i + 1].t => ~PeriodLess(ks[i], ks[i + 1])

\* the list after is the list before and, behind it, the keys ks in
\* descending order
ExtendedBy(before, ks, after) ==
    /\ Len(after) = Len(before) + Len(ks)
    /\ SubSeq(after, 1, Len(before)) = before
    /\ \A i \in 1..Len(ks) :
          /\ IsPeriod(ks[i])
          /\ Occurrences(ks[i], SubSeq(after, Len(before) + 1, Len(after)))
                = Occurrences(ks[i], ks)
    /\ Descending(SubSeq(after, Len(before) + 1, Len(after)))

\* the matches hold an exact date and a fiscal-period label of the table
MixedPeriods(dates_str) ==
    \E i, j \in 1..Len(dates_str) :
        /\ transform_date(dates_str[i]).t = "dt"
        /\ transform_date(dates_str[j]).t = "str"

\* C21, as the specification states it: the period extraction of a line
\* that holds periods leaves use_dates as it was before the line, followed
\* by all the periods of the line, most recent first, whether these are
\* exact dates, fiscal-period labels or both (each of them a date of the
\* calendar or a range of the table).
C21_Original ==
    [][(/\ parser'.g_dates # <<>>
        /\ \A i \in 1..Len(parser'.g_dates) : IsPeriod(KeysOf(parser'.g_dates)[i]))
       => /\ Len(parser'.g_extended) = 1
          /\ ExtendedBy(parser.use_dates, KeysOf(parser'.g_dates),
                        parser'.g_extended[1])]_vars

\* C21, what the code does: a line that holds an exact date and a
\* fiscal-period label ends the run with the TypeError of comparing a
\* datetime with a str, and use_dates is not extended.
C21_MixedRaises ==
    /\ cur > 0
    /\ MixedPeriods(parser.g_dates)
    /\ \A i \in 1..Len(parser.g_dates) : IsPeriod(transform_date(parser.g_dates[i]))
    /\ parser.err = "TypeError"
    /\ parser.g_extended = <<>>
    /\ parser.use_dates # <<>>

\* the periods of a line all of one kind are appended most recent first
C21_OneKind ==
    [][(/\ parser'.g_dates # <<>>
        /\ DatesError(KeysOf(parser'.g_dates)) = "")
       => /\ Len(parser'.g_extended) = 1
          /\ ExtendedBy(parser.use_dates, KeysOf(parser'.g_dates),
                        parser'.g_extended[1])]_vars

\* two dates of a line, the older one printed first, were appended behind
\* the date of an earlier line
C21_OneKindReached ==
    /\ Len(parser.g_dates) = 2
    /\ Len(parser.g_extended) = 1
    /\ Len(parser.g_extended[1]) = 3
    /\ KeysOf(parser.g_dates) # SubSeq(parser.g_extended[1], 2, 3)

-----------------------------------------------------------------------------
(* The pending sub-accounts as a list. *)

\* C22, as the specification states it: fourth_grade_account is a list in
\* every state, never None, and no run ends because an append to it or a
\* test on it was applied to something that is no list.
C22_Original ==
    /\ parser.fourth_grade_account # NoneList
    /\ parser.err # "AttributeError"

\* C22, what the code does: after the reset for an account of another
\* subject fourth_grade_account is None, and the run goes on with it
C22_NoneReached ==
    /\ parser.fourth_grade_account = NoneList
    /\ parser.err = ""
    /\ \E i \in 1..Len(parser.g_reset) : parser.g_reset[i].fourth_after = NoneList

\* C22, what the code does: a short line that is a registry key then ends
\* the run with the AttributeError of None.append
C22_AppendRaises ==
    /\ parser.fourth_grade_account = NoneList
    /\ parser.err = "AttributeError"
    /\ branch = "short_account"

-----------------------------------------------------------------------------
(* The consumed periods as a set. *)

\* the keys of the registry that hold a Period list
PeriodKeys == {k \in DOMAIN parser.subjects_dict : parser.subjects_dict[k].has_Period}

\* two rows of the list rows agree on account, sub-account and period
SameRecordTwice(rows) ==
    \E a, b \in 1..Len(rows) :
        /\ a < b
        /\ rows[a].Account = rows[b].Account
        /\ rows[a].Fourth = rows[b].Fourth
        /\ rows[a].Period = rows[b].Period

\* C23, as the specification states it: no period occurs twice in the
\* Period list of an account, and the rows one call of _append_data appends
\* differ in account, sub-account or period, also when a period was
\* appended to use_dates by more than one line.
C23_Original ==
    /\ \A k \in PeriodKeys : ~HasDuplicates(parser.subjects_dict[k].Period)
    /\ \A j \in Asms : ~SameRecordTwice(AsmRows(j))

\* C23, what the code does: a period that two lines appended to use_dates
\* is taken twice by one call of _append_data, which appends two rows of the
\* same account and period, no sub-account pending, and leaves the period
\* twice in the Period list
C23_PeriodTwice ==
    /\ parser.err = ""
    /\ HasDuplicates(parser.use_dates)
    /\ \E j \in Asms :
          /\ AsmNoPending(parser.g_asm[j])
          /\ HasDuplicates(parser.g_asm[j].dates)
          /\ SameRecordTwice(AsmRows(j))
          /\ HasDuplicates(parser.subjects_dict[parser.g_asm[j].token].Period)

-----------------------------------------------------------------------------
(* Tokens that are ignored. *)

Toks == 1..Len(parser.g_tok)

\* the iteration e of the loop of _process_tokens ignored its token
Ignored(e) == e.after = e.before

C24_NoDigitReached ==
    /\ parser.err = ""
    /\ \E i \in Toks :
          /\ parser.g_tok[i].known /\ ~parser.g_tok[i].digit
          /\ parser.g_tok[i].before.subjects_dict[parser.g_tok[i].token].Count > 0
          /\ Ignored(parser.g_tok[i])

-----------------------------------------------------------------------------
(* The rows in the order of the document. *)

\* the list a is the start of the list b
IsPrefixOf(a, b) == Len(a) <= Len(b) /\ SubSeq(b, 1, Len(a)) = a

\* C25: a line leaves the rows that were in data before it as they were, at
\* the start of data, a subject header included; the rows the line appends
\* stand behind them, those of each call of _append_data behind those of
\* the call before.
C25_AppendOnly ==
    [][/\ IsPrefixOf(parser.data, parser'.data)
       /\ \A j \in 1..Len(parser'.g_asm) :
             /\ Len(parser.data) <= parser'.g_asm[j].before
             /\ parser'.g_asm[j].before <= Len(parser'.data)
             /\ \A k \in 1..(j - 1) : parser'.g_asm[k].before <= parser'.g_asm[j].before]_vars

\* rows of two subjects are in data, those of the second one appended by
\* the line handled last: a subject header was handled in between
C25_Witness ==
    /\ Len(parser.data) >= 2
    /\ parser.data[1].Subject # parser.data[Len(parser.data)].Subject
    /\ parser.g_asm # <<>>
    /\ parser.g_asm[1].before > 0
    /\ parser.g_asm[1].before < Len(parser.data)

-----------------------------------------------------------------------------
(* The carried count of the referred accounts. *)

\* C26: other_count is never negative, and the account of the last row of
\* data, from whose Count other_count is set, has a Count of at least 1.
C26_NonNegative ==
    /\ parser.other_count >= 0
    /\ parser.data # <<>>
       => parser.subjects_dict[parser.data[Len(parser.data)].Account].Count >= 1

\* a referred account was classified after a row of a referred account
\* while other_count was 1, which left it 0; the classification of the same
\* line or of the line before had set it from a Count of 2
C26_Witness ==
    /\ parser.err = ""
    /\ parser.other_count = 0
    /\ \E i \in 1..Len(parser.g_cls) :
          /\ parser.g_cls[i].count = 1
          /\ parser.g_cls[i].last # None
          /\ EndsReferred(parser.g_cls[i].last)
          /\ parser.g_cls[i].out = parser.g_cls[i].last

-----------------------------------------------------------------------------
(* The pure functions, each applied to inputs drawn from a bounded set. *)


ParserIdle ==
    /\ content = <<>>
    /\ parser = NewParser
    /\ cur = 0
    /\ branch = "init"

NumAlphabet == {"0", "1", ",", ")", "-", "x"}

\* "1,234)", "-", "5,000"
NumExamples ==
    { <<"1", ",", "2", "3", "4", ")">>, <<"-">>, <<"5", ",", "0", "0", "0">> }

InitNums ==
    /\ ParserIdle
    /\ fin \in StringsUpTo(NumAlphabet, MaxNumLen) \cup NumExamples
    /\ fout = <<>>
    /\ fpc = "in"

ApplyNums ==
    /\ fpc = "in"
    /\ fout' = extract_subject_nums(fin)
    /\ fpc' = "out"
    /\ UNCHANGED <<content, parser, cur, branch, fin>>

SpecNums == InitNums /\ [][ApplyNums]_vars

\* the digits of a match, in order
DigitsOf(m) == SelectSeq(m, IsDigit)

\* C7: without a percent sign, the i-th number returned comes from the i-th match
\* of the number pattern, left to right: the negated digits when the match ends
\* in ")", 0 for a lone "-", the nonnegative value of the digits otherwise;
\* "1,234)" gives -1234, "-" gives 0 and "5,000" gives 5000.
C7_NegativeConvention ==
    (fpc = "out" /\ ~In("%", fin)) =>
        LET m == NumFindAll(fin)
        IN /\ Len(fout) = Len(m)
           /\ \A i \in 1..Len(m) :
                LET last == m[i][Len(m[i])]
                IN /\ fout[i].t = "int"
                   /\ last = ")" => fout[i].v = 0 - PyInt(DigitsOf(m[i]))
                   /\ m[i] = <<"-">> => fout[i].v = 0
                   /\ last \notin {")", "-"} =>
                        fout[i].v = PyInt(DigitsOf(m[i])) /\ fout[i].v >= 0
           /\ fin = <<"1", ",", "2", "3", "4", ")">> => fout = <<IntVal(0 - 1234)>>
           /\ fin = <<"-">> => fout = <<IntVal(0)>>
           /\ fin = <<"5", ",", "0", "0", "0">> => fout = <<IntVal(5000)>>

\* a bracketed grouped number has been extracted as a negative value
C7_Witness ==
    /\ fpc = "out"
    /\ fin = <<"1", ",", "2", "3", "4", ")">>
    /\ fout = <<IntVal(0 - 1234)>>

-----------------------------------------------------------------------------
(* transform_date on period strings. *)

Eras == { <<"1", "1", "1">>, <<"1", "1", "0">> }
YearSeps == {"nian", "."}
MonthSeps == {"yue", "."}
FirstMonths == { <<"1">>, <<"2">>, <<"8">>, <<"1", "0">>, <<"1", "3">> }
FirstDays == { <<"1">>, <<"0">>, <<"3", "0">>, <<"3", "1">> }
RangeMarks == { <<"zhi">>, <<"~">>, <<"ri", "zhi">> }
LastMonths == { <<"3">>, <<"6">>, <<"1", "2">> }
LastDays == { <<"3", "0">>, <<"3", "1">> }
DayMarks == { <<>>, <<"ri">> }

DateTails ==
    DayMarks \cup
    { r \o m \o <<"yue">> \o d \o e :
        r \in RangeMarks, m \in LastMonths, d \in LastDays, e \in DayMarks }

DateInputs ==
    { y \o <<a>> \o m \o <<b>> \o d \o tl :
        y \in Eras, a \in YearSeps, m \in FirstMonths, b \in MonthSeps,
        d \in FirstDays, tl \in DateTails }

InitDate ==
    /\ ParserIdle
    /\ fin \in DateInputs
    /\ fout = <<>>
    /\ fpc = "in"

ApplyDate ==
    /\ fpc = "in"
    /\ fout' = transform_date(fin)
    /\ fpc' = "out"
    /\ UNCHANGED <<content, parser, cur, branch, fin>>

SpecDate == InitDate /\ [][ApplyDate]_vars


Label2022Q1 == LabelVal(<<"2", "0", "2", "2", "-", "Q", "1">>)

\* C8 as stated, on the two strings it names: 111年1月1日至3月31日 (a range) is
\* transformed to the label "2022-Q1" and 111年8月1日 (no range) to the date
\* 2022-08-01.
C8_Original ==
    fpc = "out" =>
        /\ fin = RawQ1 => fout = Label2022Q1
        /\ fin = RawAug1 => fout = DtVal(2022, 8, 1)
        /\ (fin \in {RawQ1, RawAug1} /\ ~HasRange(fin)) => fout.t = "dt"
        /\ (fin \in {RawQ1, RawAug1} /\ HasRange(fin)) => fout.t = "str"

\* C8 (amended): on the cleaned strings (day marker removed) 111年1月1至3月31
\* gives "2022-Q1" and 111年8月1 gives 2022-08-01; a result is a date only for a
\* string without a range marker and a label only for a string with one; the
\* year of either is the era year plus 1911; a label is "{year}-{code}" with the
\* code of the month/day portion in the range table, and a string with a range
\* marker becomes a label exactly when that portion is a key of the table.
C8_DateTransform ==
    fpc = "out" =>
        LET year == PyInt(SubSeq(fin, 1, 3)) + 1911
            code == QUATER_MAP(From(fin, 4))
        IN /\ fin = CleanQ1 => fout = Label2022Q1
           /\ fin = CleanAug1 => fout = DtVal(2022, 8, 1)
           /\ fout.t = "dt" => ~HasRange(fin) /\ fout.v[1] = year
           /\ fout.t = "str" =>
                /\ HasRange(fin)
                /\ code # <<>>
                /\ fout.s = PyStr(year) \o <<"-">> \o code
           /\ (HasRange(fin) /\ code # <<>>) => fout.t = "str"
           /\ (HasRange(fin) /\ code = <<>>) => fout.t = "TypeError"
           /\ ~HasRange(fin) => fout.t \in {"dt", "ValueError"}

\* the cleaned first-quarter range has been transformed to its label
C8_Witness ==
    /\ fpc = "out"
    /\ fin = CleanQ1
    /\ fout = Label2022Q1

-----------------------------------------------------------------------------
(* merge_subjects on pairs of space-padded rows. *)


\* The two header rows of test_merge_subject (romanised):
\*   tu di ji | yun shu she bei | wei wan gong cheng
\*   tu di gai liang wu | fang wu1 ji jian zhu | ji1 qi1 she bei |
\*   ji qi ta she bei | ji dai yan she bei | he ji2
MergeTestS1 ==
    Spaces(25) \o <<"tu", "di", "ji">> \o Spaces(43)
    \o <<"yun", "shu", "she", "bei">> \o Spaces(9)
    \o <<"wei", "wan", "gong", "cheng">>

MergeTestS2 ==
    Spaces(24) \o <<"tu", "di", "gai", "liang", "wu">> \o Spaces(6)
    \o <<"fang", "wu1", "ji", "jian", "zhu">> \o Spaces(14)
    \o <<"ji1", "qi1", "she", "bei">> \o Spaces(13)
    \o <<"ji", "qi", "ta", "she", "bei">> \o Spaces(8)
    \o <<"ji", "dai", "yan", "she", "bei">> \o Spaces(12)
    \o <<"he", "ji2">>

MergeTestNames ==
    << <<"tu", "di", "ji", "tu", "di", "gai", "liang", "wu">>,
       <<"fang", "wu1", "ji", "jian", "zhu">>,
       <<"ji1", "qi1", "she", "bei">>,
       <<"yun", "shu", "she", "bei", "ji", "qi", "ta", "she", "bei">>,
       <<"wei", "wan", "gong", "cheng", "ji", "dai", "yan", "she", "bei">>,
       <<"he", "ji2">> >>

MergeAlphabet == {" ", "a", "b"}

InitMerge ==
    /\ ParserIdle
    /\ fin \in { <<a, b>> : a \in StringsUpTo(MergeAlphabet, MaxMergeLen),
                           b \in StringsUpTo(MergeAlphabet, MaxMergeLen) }
               \cup { <<MergeTestS1, MergeTestS2>> }
    /\ fout = <<>>
    /\ fpc = "in"

ApplyMerge ==
    /\ fpc = "in"
    /\ fout' = merge_subjects(fin[1], fin[2])
    /\ fpc' = "out"
    /\ UNCHANGED <<content, parser, cur, branch, fin>>

SpecMerge == InitMerge /\ [][ApplyMerge]_vars

NotSpace(c) == c # " "

\* the 1-based indices at which a maximal run of non-space characters of s starts
RunStarts(s) == {i \in 1..Len(s) : s[i] # " " /\ (i = 1 \/ s[i - 1] = " ")}

\* the index at which the run starting at i ends
RunEnd(s, i) ==
    CHOOSE j \in i..Len(s) :
        /\ \A k \in i..j : s[k] # " "
        /\ j = Len(s) \/ s[j + 1] = " "

\* the start of the k-th run
KthRun(s, k) ==
    CHOOSE i \in RunStarts(s) : Cardinality({j \in RunStarts(s) : j < i}) = k - 1

\* the index at which the k-th run of s2 is flushed: the space after it, or the
\* end of s2; 0 for k = 0
FlushIndex(s2, k) ==
    IF k = 0 THEN 0
    ELSE LET e == RunEnd(s2, KthRun(s2, k))
         IN IF e < Len(s2) THEN e + 1 ELSE e

\* whether the k-th run of s2 is followed by a space
Terminated(s2, k) == RunEnd(s2, KthRun(s2, k)) < Len(s2)

\* the k-th run of s2
RunText(s2, k) == SubSeq(s2, KthRun(s2, k), RunEnd(s2, KthRun(s2, k)))

\* the non-space characters of s1 at the indices walked for the k-th run
ShadowText(s1, s2, k) ==
    LET lo == FlushIndex(s2, k - 1) + 1
        hi == IF FlushIndex(s2, k) < Len(s1) THEN FlushIndex(s2, k) ELSE Len(s1)
    IN SelectSeq(SubSeq(s1, lo, hi), NotSpace)

\* C9 as stated: one name per run of s2, in order, and each name, the one of a
\* final run that no space follows included, is the non-space characters of s1
\* walked since the previous flush followed by the run.
C9_Original ==
    fpc = "out" =>
        /\ Len(fout) = Cardinality(RunStarts(fin[2]))
        /\ \A k \in 1..Len(fout) :
             fout[k] = ShadowText(fin[1], fin[2], k) \o RunText(fin[2], k)

\* C9 (amended): one name per maximal run of non-space characters of s2, in
\* order; the name of a run that a space follows is the non-space characters of
\* s1 at the indices walked since the previous flush (below len(s1) only)
\* followed by the run; a final run that no space follows is flushed as the run
\* alone, without the characters of s1; the two header rows of the test give
\* the six names of the test.
C9_MergeSubjects ==
    fpc = "out" =>
        /\ Len(fout) = Cardinality(RunStarts(fin[2]))
        /\ \A k \in 1..Len(fout) :
             fout[k] = IF Terminated(fin[2], k)
                       THEN ShadowText(fin[1], fin[2], k) \o RunText(fin[2], k)
                       ELSE RunText(fin[2], k)
        /\ fin = <<MergeTestS1, MergeTestS2>> => fout = MergeTestNames

\* the two header rows of the test have been merged into the six names
C9_Witness ==
    /\ fpc = "out"
    /\ fin = <<MergeTestS1, MergeTestS2>>
    /\ fout = MergeTestNames
    /\ Len(fout) = 6

-----------------------------------------------------------------------------
(* load_subjects_dict on the lines of a dictionary. *)

MaxDict == 3

\* the lines a dictionary is made of: the markers of two main subjects, two
\* accounts, two ambiguous accounts, a blank line
DictLines ==
    { <<"#", " ">> \o PPE, <<"#", " ">> \o INV, Land, RawMat, Other, Total, <<>> }

InitDict ==
    /\ ParserIdle
    /\ fin \in StringsUpTo(DictLines, MaxDict) \cup {DictionaryText}
    /\ fout = <<>>
    /\ fpc = "in"

ApplyDict ==
    /\ fpc = "in"
    /\ fout' = load_subjects_dict(fin)
    /\ fpc' = "out"
    /\ UNCHANGED <<content, parser, cur, branch, fin>>

SpecDict == InitDict /\ [][ApplyDict]_vars

\* the line is the marker line of a main subject
IsMarkerLine(text) == text # <<>> /\ Head(text) = "#"

\* a child account line comes before every marker line of the dictionary
ChildBeforeMarker(d) ==
    \E i \in 1..Len(d) :
        /\ d[i] # <<>> /\ ~IsMarkerLine(d[i])
        /\ \A j \in 1..(i - 1) : ~IsMarkerLine(d[j])

\* C12, as the specification states it: loading a dictionary in which a child
\* account line comes before any main-subject marker fails with
\* DictionaryFormatError, and no entry of the registry has an empty owner
\* subject.
C12_Original ==
    fpc = "out" =>
        /\ ChildBeforeMarker(fin) => fout.err = "DictionaryFormatError"
        /\ \A k \in DOMAIN fout.subject_d :
              fout.subject_d[k].has_Subject => fout.subject_d[k].Subject # <<>>

====
